---- MODULE Spec2Model ----
(***************************************************************************)
(* Ultimate Reaction Driver (src/game.js): the player-progress store and   *)
(* the game session of the GameEngine, as a state machine.                 *)
(*                                                                         *)
(* Objects are records (playerProgress, localStorage, game); every method  *)
(* is an operator from the objects before the call to the objects after    *)
(* it, so that a handler that calls several methods in a row (gameOver     *)
(* calls addXP, addScore and save) is one action.                          *)
(***************************************************************************)
EXTENDS Integers, Sequences, FiniteSets, TLC

VARIABLES
    playerProgress,   \* the global PlayerProgress instance (game.js:2618)
    localStorage,     \* the three keys the program reads and writes
    now,              \* Date.now(), in ms since the page was opened
    lastCall,         \* the last PlayerProgress call: method, argument, value returned
    inserted,         \* history: per mode, every entry ever passed through addScore
    game              \* the GameEngine instance (game.js:2620, 2625)

vars == <<playerProgress, localStorage, now, lastCall, inserted, game>>

----------------------------------------------------------------------------
(* Bounds of the model *)

\* addXP is not called once xp + amount would exceed this
MaxXP == 2000
\* total number of leaderboard entries inserted in one behaviour of SpecBoard
MaxInserts == 11
\* total number of leaderboard entries inserted in one behaviour of SpecProgress
MaxProgressScores == 1
\* the wall clock stops the behaviour at this many ms
MaxNow == 4700
\* ms of wall clock per frame of a run
FrameMs == 17
\* ms of wall clock that pass at once outside a run
StallMs == 3000
\* user events are let in every InputEvery-th frame of a run
InputEvery == 90
\* the wall clock of the specification of single runs, and the simulated
\* time upto which its spawns draw freely
RunMaxNow == 8000
RichTicks == 300
\* the wall clock of the specification of long runs
TimerMaxNow == 62000
\* the wall clock of the specification of peers, and the number of
\* SimplePeer objects it lets the page make
PeerMaxNow == 200
MaxPeers == 2

\* the wall clock of the specification of speed effects
EffectMaxNow == 10000

\* the specification of late ticks: it looks at the runs every LateStride
\* ticks of simulated time, LateSteps times, and follows each for LateTicks
LateStride == 600
LateSteps == 24
LateTicks == 2

\* the wall clock of the specification of power-ups
PowerMaxNow == 7500

\* the specification of expiring effects follows a run for this many ticks
ExpiryTicks == 3

\* the specification of a box crossing the car follows it for this many ticks
CrossTicks == 30

\* the amounts addXP is called with
XPAmounts == {0, 250, 1000}
\* the amounts addXP is called with on the stored profile, and the XP it
\* may hold there
StoreXP == {50, 250}
StoreMaxXP == 300
\* the scores addScore is called with
Scores == {10, 20}

----------------------------------------------------------------------------
(* Program constants *)

Null == "null"

Modes == {"classic", "timeattack", "survival"}
SkillNames == {"speed", "xpBoost", "handling"}
VehicleIds == {"basic", "sports", "super", "hyper"}

\* vehicle.unlockLevel; 0 stands for the absent field of the basic car
unlockLevel == [basic |-> 0, sports |-> 5, super |-> 10, hyper |-> 20]

\* skills are capped at this level (upgradeSkill)
SkillCap == 5
\* addScore keeps this many entries per mode
BoardSize == 10

----------------------------------------------------------------------------
(* PlayerProgress *)

RECURSIVE Pow(_, _)
Pow(b, e) == IF e = 0 THEN 1 ELSE b * Pow(b, e - 1)

\* new PlayerProgress()
NewPlayerProgress ==
    [ level |-> 1, xp |-> 0, skillPoints |-> 0,
      skills |-> [speed |-> 0, xpBoost |-> 0, handling |-> 0],
      vehicles |-> [v \in VehicleIds |-> v = "basic"],
      currentVehicle |-> "basic",
      leaderboards |-> [m \in Modes |-> <<>>],
      username |-> Null, isGuest |-> FALSE ]

\* Math.floor(100 * Math.pow(1.5, level - 1)), as floor(100 * 3^k / 2^k)
\* computed without leaving 32 bits
getXPForNextLevel(p) ==
    LET k == p.level - 1
        a == Pow(3, k)
        b == Pow(2, k)
    IN  100 * (a \div b) + ((100 * (a % b)) \div b)

\* the forEach of levelUp and load: vehicle.unlockLevel && level >= vehicle.unlockLevel
unlockVehicles(p) ==
    [p EXCEPT !.vehicles =
        [v \in VehicleIds |->
            IF unlockLevel[v] # 0 /\ p.level >= unlockLevel[v]
            THEN TRUE ELSE p.vehicles[v]]]

\* JSON.stringify(this): every own field of the instance
stringify(p) == [kind |-> "json", data |-> p]

\* save() that does not write urd_is_guest
save_NoGuestFlag(p, ls) ==
    [ls EXCEPT !.ultimateReactionDriver = stringify(p),
               !.urd_username = IF p.username # Null /\ p.username # ""
                                THEN p.username ELSE @]

\* save(): the blob, urd_username only when the username is truthy, urd_is_guest
save(p, ls) ==
    [ls EXCEPT !.ultimateReactionDriver = stringify(p),
               !.urd_username = IF p.username # Null /\ p.username # ""
                                THEN p.username ELSE @,
               !.urd_is_guest = IF p.isGuest THEN "true" ELSE "false"]

\* load() that lets a blob it cannot parse wipe the level
load_WipeOnError(p, ls) ==
    IF ls.ultimateReactionDriver.kind = "json"
    THEN [unlockVehicles(ls.ultimateReactionDriver.data)
            EXCEPT !.username = ls.urd_username, !.isGuest = (ls.urd_is_guest = "true")]
    ELSE [p EXCEPT !.level = 0]

\* load(): a missing blob is skipped; a malformed one throws inside the try,
\* which also skips the reading of the two user keys
load(p, ls) ==
    LET blob == ls.ultimateReactionDriver IN
    IF blob.kind = "malformed" THEN p
    ELSE LET q == IF blob.kind = "json" THEN unlockVehicles(blob.data) ELSE p
         IN  [q EXCEPT !.username = ls.urd_username,
                       !.isGuest = (ls.urd_is_guest = "true")]

\* levelUp() without the unlock loop
levelUp_NoUnlock(p, ls) ==
    LET q == [p EXCEPT !.xp = p.xp - getXPForNextLevel(p),
                       !.level = p.level + 1,
                       !.skillPoints = p.skillPoints + 1]
    IN  [p |-> q, ls |-> save(q, ls)]

\* levelUp(): one threshold, one level, one skill point, unlocks, save
levelUp(p, ls) ==
    LET q == unlockVehicles(
                [p EXCEPT !.xp = p.xp - getXPForNextLevel(p),
                          !.level = p.level + 1,
                          !.skillPoints = p.skillPoints + 1])
    IN  [p |-> q, ls |-> save(q, ls)]

\* addXP(amount): a single comparison, at most one levelUp
addXP(p, ls, amount) ==
    LET q == [p EXCEPT !.xp = p.xp + amount] IN
    IF q.xp >= getXPForNextLevel(q)
    THEN LET r == levelUp(q, ls) IN [p |-> r.p, ls |-> r.ls, ret |-> TRUE]
    ELSE [p |-> q, ls |-> ls, ret |-> FALSE]

\* upgradeSkill without the test of the cap
upgradeSkill_NoCap(p, ls, skillName) ==
    IF p.skillPoints <= 0 THEN [p |-> p, ls |-> ls, ret |-> FALSE]
    ELSE LET q == [p EXCEPT !.skills[skillName] = @ + 1, !.skillPoints = @ - 1]
         IN  [p |-> q, ls |-> save(q, ls), ret |-> TRUE]

\* upgradeSkill without the test of the skill points
upgradeSkill_NoPoints(p, ls, skillName) ==
    IF p.skills[skillName] >= 5 THEN [p |-> p, ls |-> ls, ret |-> FALSE]
    ELSE LET q == [p EXCEPT !.skills[skillName] = @ + 1, !.skillPoints = @ - 1]
         IN  [p |-> q, ls |-> save(q, ls), ret |-> TRUE]

\* upgradeSkill(skillName)
\* upgradeSkill that raises the skill and keeps the point
upgradeSkill_Free(p, ls, skillName) ==
    IF p.skillPoints <= 0 THEN [p |-> p, ls |-> ls, ret |-> FALSE]
    ELSE IF p.skills[skillName] >= SkillCap THEN [p |-> p, ls |-> ls, ret |-> FALSE]
    ELSE LET q == [p EXCEPT !.skills[skillName] = @ + 1]
         IN  [p |-> q, ls |-> save(q, ls), ret |-> TRUE]

upgradeSkill(p, ls, skillName) ==
    IF p.skillPoints <= 0 THEN [p |-> p, ls |-> ls, ret |-> FALSE]
    ELSE IF p.skills[skillName] >= SkillCap THEN [p |-> p, ls |-> ls, ret |-> FALSE]
    ELSE LET q == [p EXCEPT !.skills[skillName] = @ + 1, !.skillPoints = @ - 1]
         IN  [p |-> q, ls |-> save(q, ls), ret |-> TRUE]

\* selectVehicle(vehicleId): the id may name no vehicle at all
\* selectVehicle that takes every vehicle of the garage, locked or not
selectVehicle_Locked(p, ls, vehicleId) ==
    IF vehicleId \in VehicleIds
    THEN LET q == [p EXCEPT !.currentVehicle = vehicleId]
         IN  [p |-> q, ls |-> save(q, ls), ret |-> TRUE]
    ELSE [p |-> p, ls |-> ls, ret |-> FALSE]

selectVehicle(p, ls, vehicleId) ==
    IF vehicleId \in VehicleIds /\ p.vehicles[vehicleId]
    THEN LET q == [p EXCEPT !.currentVehicle = vehicleId]
         IN  [p |-> q, ls |-> save(q, ls), ret |-> TRUE]
    ELSE [p |-> p, ls |-> ls, ret |-> FALSE]

\* getDisplayName()
getDisplayName(p) ==
    IF p.isGuest \/ p.username = Null \/ p.username = "" THEN "Guest" ELSE p.username

\* a sort that puts an entry before the entries of equal score
RECURSIVE insertDesc_Unstable(_, _)
insertDesc_Unstable(sorted, e) ==
    IF sorted = <<>> THEN <<e>>
    ELSE IF Head(sorted).score > e.score
         THEN <<Head(sorted)>> \o insertDesc_Unstable(Tail(sorted), e)
         ELSE <<e>> \o sorted

\* Array.prototype.sort((a, b) => b.score - a.score): stable (ECMAScript 2019),
\* so an entry goes behind every entry whose score is not smaller
RECURSIVE insertDesc(_, _)
insertDesc(sorted, e) ==
    IF sorted = <<>> THEN <<e>>
    ELSE IF Head(sorted).score >= e.score
         THEN <<Head(sorted)>> \o insertDesc(Tail(sorted), e)
         ELSE <<e>> \o sorted

RECURSIVE sortDesc(_)
sortDesc(s) ==
    IF s = <<>> THEN <<>>
    ELSE insertDesc(sortDesc(SubSeq(s, 1, Len(s) - 1)), s[Len(s)])

\* slice(0, n)
slice(s, n) == SubSeq(s, 1, IF Len(s) < n THEN Len(s) ELSE n)

\* the entry addScore builds
scoreEntry(p, score, date) ==
    [score |-> score, date |-> date, username |-> getDisplayName(p), isGuest |-> p.isGuest]

\* addScore(mode, score) at time date: push, sort, slice(0, 10), save
addScore(p, ls, mode, score, date) ==
    LET pushed == Append(p.leaderboards[mode], scoreEntry(p, score, date))
        q == [p EXCEPT !.leaderboards[mode] = slice(sortDesc(pushed), BoardSize)]
    IN  [p |-> q, ls |-> save(q, ls)]

----------------------------------------------------------------------------
(* GameEngine: numbers.  Lengths are kept in thousandths of a world unit,   *)
(* speeds in thousandths of a unit per second, simulated time in ticks of   *)
(* delta = 1/60 s, the wall clock in ms.                                    *)

Milli == 1000
\* this.baseSpeed and this.maxSpeed, units per second
baseSpeed == 50
\* a cap that lets an entity move ten units in a tick
maxSpeed_Fast == 3 * 200
maxSpeed == 200
\* animate(): delta = 1 / 60
TicksPerSecond == 60
\* the three lanes are lane * 10 wide apart
LaneWidth == 10
\* the player's z, set by createPlayer and startGame
PlayerZ == 20
\* where createObstacle and createPowerUp put a new entity
ObstacleSpawnZ == -100
PowerUpSpawnZ == -120
\* an entity beyond this z has passed the player
\* a cull line further down the road
PassedZ_Far == 30 + 5
PassedZ == 30
\* score for an obstacle that passed, and for a score power-up
PassScore == 10
ScoreBonus == 500
\* collision boxes: obstacle, power-up
ObstacleDistX == 3
\* a collision box that is longer than the one of the program
ObstacleDistZ_Wide == 4 + 2
ObstacleDistZ == 4
PowerUpDistX == 2
PowerUpDistZ == 3
\* the time-attack limit in seconds
TimeAttackLimit == 60
\* timeElapsed is a double that grows by 1/60 with every tick; after 3600
\* additions it is still below 60 (59.99999999999...), so the first tick with
\* timeElapsed >= 60 is tick 3601
TimeAttackTicks == TimeAttackLimit * TicksPerSecond + 1

PowerUpTypes == {"speed", "shield", "score", "slowmo", "magnet"}
Lanes == {-1, 0, 1}

\* collectPowerUp: duration in ms
duration == [speed |-> 5000, shield |-> 3000, score |-> 0, slowmo |-> 4000, magnet |-> 6000]

\* collectPowerUp: the text of the notification
notificationText ==
    [speed |-> "Speed Boost!", shield |-> "Shield Active!", score |-> "+500 Points!",
     slowmo |-> "Slow Motion!", magnet |-> "Magnet Active!"]

Abs(a) == IF a < 0 THEN -a ELSE a
Min(a, b) == IF a < b THEN a ELSE b
Max(a, b) == IF a > b THEN a ELSE b

\* the quotient rounded towards zero, as the sign-symmetric float product is
TruncDiv(a, b) == IF a >= 0 THEN a \div b ELSE -((-a) \div b)

\* Math.sqrt, rounded down to the thousandth
RECURSIVE SqrtBetween(_, _, _)
SqrtBetween(n, lo, hi) ==
    IF lo >= hi THEN lo
    ELSE LET mid == (lo + hi + 1) \div 2
         IN  IF mid * mid <= n THEN SqrtBetween(n, mid, hi) ELSE SqrtBetween(n, lo, mid - 1)

Sqrt(n) == SqrtBetween(n, 0, 30000)

\* Array.prototype.splice(i, 1)
splice(s, i) == SubSeq(s, 1, i - 1) \o SubSeq(s, i + 1, Len(s))

\* new Map(), Map.set, Map.delete, Map.has
EmptyMap == [k \in {} |-> 0]
mapSet(m, k, v) == [x \in DOMAIN m \cup {k} |-> IF x = k THEN v ELSE m[x]]
mapDelete(m, k) == [x \in DOMAIN m \ {k} |-> m[x]]
mapHas(m, k) == k \in DOMAIN m

----------------------------------------------------------------------------
(* GameEngine *)

\* new GameEngine(): the fields of the simulation; animating says that init()
\* has reached this.animate().  peers are the SimplePeer objects made so far,
\* this.peer being the last of them; sent is what went into peer.send()
NewGame ==
    [ gameState |-> "loading", currentMode |-> "classic",
      score |-> 0, distance |-> 0, speed |-> 0,
      obstacleSpawnTimer |-> 0, timeElapsed |-> 0,
      playerLane |-> 0, playerX |-> 0,
      obstacles |-> <<>>, powerUps |-> <<>>,
      activePowerUps |-> EmptyMap, shield |-> FALSE,
      notificationQueue |-> <<>>, animating |-> FALSE,
      peers |-> <<>>, connections |-> <<>>, remotePlayers |-> EmptyMap,
      sent |-> <<>> ]

\* moveLeft() without the test of the lane
moveLeft_NoGuard(g) == [g EXCEPT !.playerLane = @ - 1]

\* moveLeft(), moveRight()
moveLeft(g) == IF g.playerLane > -1 THEN [g EXCEPT !.playerLane = @ - 1] ELSE g
moveRight(g) == IF g.playerLane < 1 THEN [g EXCEPT !.playerLane = @ + 1] ELSE g

\* showPowerUpNotification(text): queued while playing, displayed at once
\* otherwise (the notification element itself is DOM and is not modelled)
showPowerUpNotification(g, text) ==
    IF g.gameState = "playing"
    THEN [g EXCEPT !.notificationQueue = Append(@, text)]
    ELSE g

\* processNotificationQueue(): shifts one notification out of the queue
processNotificationQueue(g) ==
    IF Len(g.notificationQueue) > 0 /\ g.gameState \in {"paused", "gameover", "menu"}
    THEN [g EXCEPT !.notificationQueue = Tail(@)]
    ELSE g

\* showMainMenu() that leaves the notification queue alone
showMainMenu_KeepQueue(g) == [g EXCEPT !.gameState = "menu"]

\* showMainMenu()
showMainMenu(g) == [g EXCEPT !.gameState = "menu", !.notificationQueue = <<>>]

\* startGame(mode) without activePowerUps.clear()
startGame_KeepEffects(g, mode) ==
    [g EXCEPT !.currentMode = mode, !.gameState = "playing",
              !.score = 0, !.distance = 0, !.speed = baseSpeed * Milli,
              !.timeElapsed = 0, !.obstacleSpawnTimer = 0, !.playerLane = 0,
              !.obstacles = <<>>, !.powerUps = <<>>, !.playerX = 0]

\* startGame(mode): no test of the current state; the shield mesh of the
\* player and the notification queue are not touched
startGame(g, mode) ==
    [g EXCEPT !.currentMode = mode, !.gameState = "playing",
              !.score = 0, !.distance = 0, !.speed = baseSpeed * Milli,
              !.timeElapsed = 0, !.obstacleSpawnTimer = 0, !.playerLane = 0,
              !.obstacles = <<>>, !.powerUps = <<>>, !.activePowerUps = EmptyMap,
              !.playerX = 0]

\* pauseGame() without the test of the state
pauseGame_NoGuard(g) == processNotificationQueue([g EXCEPT !.gameState = "paused"])

\* pauseGame()
pauseGame(g) ==
    IF g.gameState # "playing" THEN g
    ELSE processNotificationQueue([g EXCEPT !.gameState = "paused"])

\* resumeGame(): no test of the current state
resumeGame(g) == [g EXCEPT !.gameState = "playing"]

\* quitToMenu()
quitToMenu(g) == showMainMenu(g)

\* gameOver() at wall-clock time t, on the world w = [g, p, ls]
\* gameOver(): baseXP = floor(score / 10), xpEarned = floor(baseXP * xpMultiplier),
\* in exact arithmetic; the doubles of the program give the same below
\* baseXP = 45 (45 * 1.4 is 62.99999999999999)
xpEarned(g, p) == ((g.score \div 10) * (5 + p.skills.xpBoost)) \div 5

\* gameOver() whose call of addScore is missing
gameOverScore_NoEntry(r, g, t) == [p |-> r.p, ls |-> r.ls]

\* gameOver(): addXP, then addScore and save on what addXP left (r)
gameOverScore(r, g, t) == addScore(r.p, r.ls, g.currentMode, g.score, t)
gameOverSave(r, g) == [g |-> g, p |-> r.p, ls |-> save(r.p, r.ls)]

gameOver(w, t) ==
    gameOverSave(gameOverScore(addXP(w.p, w.ls, xpEarned(w.g, w.p)), w.g, t),
                 processNotificationQueue([w.g EXCEPT !.gameState = "gameover"]))

\* effects that never count as active
isActive_Never(g, type, t) == FALSE

\* an effect is in the map and its end time is still ahead
isActive(g, type, t) == mapHas(g.activePowerUps, type) /\ g.activePowerUps[type] > t

\* the speed without the cap at maxSpeed
computeSpeed_NoCap(g, p, t) ==
    LET speedBoost10 == 10 + p.skills.speed
        m1 == IF isActive(g, "speed", t) THEN 3 ELSE 2
        m2 == IF isActive(g, "slowmo", t) THEN 1 ELSE m1
        grown == (baseSpeed * Milli * (TicksPerSecond * 60 + g.timeElapsed)) \div (TicksPerSecond * 60)
    IN  (((grown * speedBoost10) \div 10) * m2) \div 2

\* the speed with the two multipliers of the power-ups multiplied
computeSpeed_Product(g, p, t) ==
    LET speedBoost10 == 10 + p.skills.speed
        m1 == IF isActive(g, "speed", t) THEN 3 ELSE 2
        m2 == IF isActive(g, "slowmo", t) THEN 1 ELSE 2
        grown == (baseSpeed * Milli * (TicksPerSecond * 60 + g.timeElapsed)) \div (TicksPerSecond * 60)
    IN  Min((((grown * speedBoost10) \div 10) * m1 * m2) \div 4, maxSpeed * Milli)

\* updateGame: speed from elapsed time, speed skill and power-ups
computeSpeed(g, p, t) ==
    LET speedBoost10 == 10 + p.skills.speed
        m1 == IF isActive(g, "speed", t) THEN 3 ELSE 2
        m2 == IF isActive(g, "slowmo", t) THEN 1 ELSE m1
        grown == (baseSpeed * Milli * (TicksPerSecond * 60 + g.timeElapsed))
                    \div (TicksPerSecond * 60)
    IN  Min((((grown * speedBoost10) \div 10) * m2) \div 2, maxSpeed * Milli)

\* updateGame: the player's x moves a tenth of the way, times handling
movePlayer(g, p) ==
    LET targetX == g.playerLane * LaneWidth * Milli
    IN  [g EXCEPT !.playerX = @ + TruncDiv((targetX - @) * (5 + p.skills.handling), 50)]

\* updateGame: max(1.5 - timeElapsed / 120, 0.5) seconds, in 1/7200 s
spawnRate(g) == Max(10800 - g.timeElapsed, 3600)

\* createObstacle() / createPowerUp() with the random draws c
spawnEntity(g, c) ==
    IF c.kind = "powerUp"
    THEN [g EXCEPT !.powerUps =
            Append(@, [type |-> c.type, x |-> c.lane * LaneWidth * Milli, z |-> PowerUpSpawnZ * Milli])]
    ELSE [g EXCEPT !.obstacles =
            Append(@, [x |-> c.lane * LaneWidth * Milli, z |-> ObstacleSpawnZ * Milli])]

\* the spawn check that leaves the timer running after a spawn
spawnCheck_NoReset(g, c) ==
    LET timer == g.obstacleSpawnTimer + 1 IN
    IF timer * 120 > spawnRate(g)
    THEN [spawnEntity(g, c) EXCEPT !.obstacleSpawnTimer = timer]
    ELSE [g EXCEPT !.obstacleSpawnTimer = timer]

\* updateGame: the spawn timer
spawnCheck(g, c) ==
    LET timer == g.obstacleSpawnTimer + 1 IN
    IF timer * 120 > spawnRate(g)
    THEN [spawnEntity(g, c) EXCEPT !.obstacleSpawnTimer = 0]
    ELSE [g EXCEPT !.obstacleSpawnTimer = timer]

\* the obstacle loop in spawn order: with i obstacles left it takes the one
\* at index length - i + 1
RECURSIVE updateObstacles_SpawnOrder(_, _, _)
updateObstacles_SpawnOrder(st, i, t) ==
    IF i = 0 THEN st
    ELSE
    LET g == st.w.g
        j == Len(g.obstacles) - i + 1
        z == g.obstacles[j].z + (g.speed \div TicksPerSecond)
        moved == [g EXCEPT !.obstacles[j].z = z]
        distX == Abs(g.playerX - g.obstacles[j].x)
        distZ == Abs(PlayerZ * Milli - z)
    IN  IF z > PassedZ * Milli
        THEN updateObstacles_SpawnOrder(
                [st EXCEPT !.w.g = [g EXCEPT !.obstacles = splice(@, j),
                                             !.score = @ + PassScore]], i - 1, t)
        ELSE IF distX < ObstacleDistX * Milli /\ distZ < ObstacleDistZ * Milli
        THEN IF isActive(g, "shield", t)
             THEN updateObstacles_SpawnOrder(
                    [st EXCEPT !.w.g =
                        [showPowerUpNotification(moved, "Shield Absorbed Hit!")
                            EXCEPT !.activePowerUps = mapDelete(@, "shield"),
                                   !.shield = FALSE,
                                   !.obstacles = splice(@, j)]], i - 1, t)
             ELSE [w |-> gameOver([st.w EXCEPT !.g = moved], t), over |-> TRUE]
        ELSE updateObstacles_SpawnOrder([st EXCEPT !.w.g = moved], i - 1, t)

\* updateGame: the obstacle loop from index i down to 1, on st = [w, over];
\* over says that gameOver() ran and updateGame returned
RECURSIVE updateObstacles(_, _, _)
updateObstacles(st, i, t) ==
    IF i = 0 THEN st
    ELSE
    LET g == st.w.g
        z == g.obstacles[i].z + (g.speed \div TicksPerSecond)
        moved == [g EXCEPT !.obstacles[i].z = z]
        distX == Abs(g.playerX - g.obstacles[i].x)
        distZ == Abs(PlayerZ * Milli - z)
    IN  IF z > PassedZ * Milli
        THEN updateObstacles(
                [st EXCEPT !.w.g = [g EXCEPT !.obstacles = splice(@, i),
                                             !.score = @ + PassScore]], i - 1, t)
        ELSE IF distX < ObstacleDistX * Milli /\ distZ < ObstacleDistZ * Milli
        THEN IF isActive(g, "shield", t)
             THEN updateObstacles(
                    [st EXCEPT !.w.g =
                        [showPowerUpNotification(moved, "Shield Absorbed Hit!")
                            EXCEPT !.activePowerUps = mapDelete(@, "shield"),
                                   !.shield = FALSE,
                                   !.obstacles = splice(@, i)]], i - 1, t)
             ELSE [w |-> gameOver([st.w EXCEPT !.g = moved], t), over |-> TRUE]
        ELSE updateObstacles([st EXCEPT !.w.g = moved], i - 1, t)

\* collectPowerUp(powerUp) that adds the duration to an effect already held
collectPowerUp_Stack(g, i, t) ==
    LET type == g.powerUps[i].type
        from == IF isActive(g, type, t) THEN g.activePowerUps[type] ELSE t
        g1 == IF type = "score"
              THEN [g EXCEPT !.score = @ + ScoreBonus]
              ELSE [g EXCEPT !.activePowerUps = mapSet(@, type, from + duration[type]),
                             !.shield = IF type = "shield" THEN TRUE ELSE @]
    IN  [showPowerUpNotification(g1, notificationText[type])
            EXCEPT !.powerUps = splice(@, i)]

\* collectPowerUp(powerUp) for the power-up at index i
collectPowerUp(g, i, t) ==
    LET type == g.powerUps[i].type
        g1 == IF type = "score"
              THEN [g EXCEPT !.score = @ + ScoreBonus]
              ELSE [g EXCEPT !.activePowerUps = mapSet(@, type, t + duration[type]),
                             !.shield = IF type = "shield" THEN TRUE ELSE @]
    IN  [showPowerUpNotification(g1, notificationText[type])
            EXCEPT !.powerUps = splice(@, i)]

\* updateGame: the pull of the magnet on a power-up at (x, z)
magnetPull(g, pu, t) ==
    LET diffX == g.playerX - pu.x
        diffZ == PlayerZ * Milli - pu.z
    IN  IF ~isActive(g, "magnet", t) \/ Abs(diffX) >= 20 * Milli \/ Abs(diffZ) >= 20 * Milli
        THEN pu
        ELSE LET distance == Sqrt(diffX * diffX + diffZ * diffZ)
             IN  IF distance < 20 * Milli /\ distance > Milli
                 THEN [pu EXCEPT !.x = @ + TruncDiv(diffX * 200, distance),
                                 !.z = @ + TruncDiv(diffZ * 200, distance)]
                 ELSE pu

\* updateGame: the power-up loop from index i down to 1
RECURSIVE updatePowerUps(_, _, _)
updatePowerUps(g, i, t) ==
    IF i = 0 THEN g
    ELSE
    LET z == g.powerUps[i].z + (g.speed \div TicksPerSecond) IN
    IF z > PassedZ * Milli
    THEN updatePowerUps([g EXCEPT !.powerUps = splice(@, i)], i - 1, t)
    ELSE LET pu == magnetPull(g, [g.powerUps[i] EXCEPT !.z = z], t)
             moved == [g EXCEPT !.powerUps[i] = pu]
         IN  IF /\ Abs(g.playerX - pu.x) < PowerUpDistX * Milli
                /\ Abs(PlayerZ * Milli - pu.z) < PowerUpDistZ * Milli
             THEN updatePowerUps(collectPowerUp(moved, i, t), i - 1, t)
             ELSE updatePowerUps(moved, i - 1, t)

\* the expiry that keeps the effect whose end time is this very moment
expireEffects_Late(g, t) ==
    LET live == {k \in DOMAIN g.activePowerUps : g.activePowerUps[k] >= t} IN
    [g EXCEPT !.activePowerUps = [k \in live |-> g.activePowerUps[k]],
              !.shield = IF mapHas(g.activePowerUps, "shield") /\ "shield" \notin live
                         THEN FALSE ELSE @]

\* updateGame: effects whose end time has come are deleted
expireEffects(g, t) ==
    LET live == {k \in DOMAIN g.activePowerUps : g.activePowerUps[k] > t} IN
    [g EXCEPT !.activePowerUps = [k \in live |-> g.activePowerUps[k]],
              !.shield = IF mapHas(g.activePowerUps, "shield") /\ "shield" \notin live
                         THEN FALSE ELSE @]

\* updateGame: distance and the distance part of the score
\* the score taking the whole of the distance of the tick
accumulate_Whole(g) ==
    [g EXCEPT !.distance = @ + (g.speed \div TicksPerSecond),
              !.score = @ + ((g.speed \div TicksPerSecond) \div Milli)]

accumulate(g) ==
    [g EXCEPT !.distance = @ + (g.speed \div TicksPerSecond),
              !.score = @ + ((g.speed \div (TicksPerSecond * 10)) \div Milli)]

\* updateGame(delta) with delta = 1/60, at wall-clock time t, the random
\* draws of a spawn being c
\* updateGame: timeElapsed += delta, and the speed of this frame
setSpeed(g, p, t) == [g EXCEPT !.speed = computeSpeed(g, p, t)]
advance(g, p, t) == setSpeed([g EXCEPT !.timeElapsed = @ + 1], p, t)

\* updateGame: the two loops over all entities
allObstacles(w, t) == updateObstacles([w |-> w, over |-> FALSE], Len(w.g.obstacles), t)
allPowerUps(g, t) == updatePowerUps(g, Len(g.powerUps), t)

\* updateGame without the mode-specific logic
modeCheck_NoLimit(w, t) == w

\* updateGame: the end of the mode
modeCheck(w, t) ==
    IF /\ w.g.currentMode = "timeattack"
       /\ w.g.timeElapsed >= TimeAttackTicks
    THEN gameOver(w, t)
    ELSE w

\* updateGame that goes on behind a fatal collision
afterObstacles_NoReturn(st, t) ==
    IF st.over THEN [st.w EXCEPT !.g = accumulate(expireEffects(allPowerUps(@, t), t))]
    ELSE modeCheck([st.w EXCEPT !.g = accumulate(expireEffects(allPowerUps(@, t), t))], t)

\* updateGame behind the obstacle loop, which has returned if over
afterObstacles(st, t) ==
    IF st.over THEN st.w
    ELSE modeCheck([st.w EXCEPT !.g = accumulate(expireEffects(allPowerUps(@, t), t))], t)

\* updateGame(delta) without the test of the state
updateGame_NoGuard(w, c, t) ==
    afterObstacles(
        allObstacles([w EXCEPT !.g = spawnCheck(movePlayer(advance(@, w.p, t), w.p), c)], t),
        t)

\* updateGame(delta)
updateGame(w, c, t) ==
    IF w.g.gameState # "playing" THEN w
    ELSE afterObstacles(
            allObstacles([w EXCEPT !.g = spawnCheck(movePlayer(advance(@, w.p, t), w.p), c)], t),
            t)

----------------------------------------------------------------------------
(* GameEngine: multiplayer *)

\* names that the object literal this.remotePlayers = {} inherits from
\* Object.prototype: remotePlayers[name] is a function there, not a mesh
ProtoKeys == {"constructor"}

\* new SimplePeer({ initiator: true, trickle: false })
NewPeer == [connected |-> FALSE]

\* the position of a new THREE.Mesh
Origin == [x |-> 0, y |-> 0, z |-> 0]

\* joinMultiplayer(roomId); loaded says that the SimplePeer library is there.
\* The peer that this.peer held before is neither destroyed nor forgotten by
\* its handlers
joinMultiplayer(g, roomId, loaded) ==
    IF roomId = "" THEN g
    ELSE IF ~loaded THEN g
    ELSE [g EXCEPT !.peers = Append(@, NewPeer)]

\* broadcastPlayerPosition()
broadcastPlayerPosition(g) ==
    IF g.peers = <<>> \/ ~g.peers[Len(g.peers)].connected THEN g
    ELSE [g EXCEPT !.sent =
            Append(@, stringify([type |-> "position", x |-> g.playerX, y |-> Milli,
                                 z |-> PlayerZ * Milli, lane |-> g.playerLane]))]

\* animate(): the sync of the remote players behind updateGame
syncPlayers(g) ==
    IF Len(g.connections) > 0 /\ g.gameState = "playing"
    THEN broadcastPlayerPosition(g)
    ELSE g

\* createRemotePlayer(playerId)
createRemotePlayer(g, playerId) ==
    [g EXCEPT !.remotePlayers = mapSet(@, playerId, Origin)]

\* remotePlayer.position.set(data.x, data.y, data.z)
setPosition(g, data) ==
    [g EXCEPT !.remotePlayers[data.playerId] = [x |-> data.x, y |-> data.y, z |-> data.z]]

\* handleMultiplayerData(data): for a name of Object.prototype the lookup is
\* truthy, no remote player is created, and position.set throws a TypeError
\* before anything has changed
handleMultiplayerData(g, data) ==
    IF data.type # "position" THEN g
    ELSE IF mapHas(g.remotePlayers, data.playerId) THEN setPosition(g, data)
    ELSE IF data.playerId \in ProtoKeys THEN g
    ELSE setPosition(createRemotePlayer(g, data.playerId), data)

\* the data handler that forgets the remote players when JSON.parse throws
onData_DropPlayers(g, payload) ==
    IF payload.kind # "json" THEN [g EXCEPT !.remotePlayers = EmptyMap]
    ELSE handleMultiplayerData(g, payload.data)

\* peer.on('data'): JSON.parse and handleMultiplayerData inside try / catch
onData(g, payload) ==
    IF payload.kind # "json" THEN g
    ELSE handleMultiplayerData(g, payload.data)

----------------------------------------------------------------------------
(* Actions on PlayerProgress *)

NoCall == [op |-> "none", arg |-> "", ret |-> FALSE]

AddXP(amount) ==
    /\ playerProgress.xp + amount <= MaxXP
    /\ LET r == addXP(playerProgress, localStorage, amount) IN
        /\ playerProgress' = r.p
        /\ localStorage' = r.ls
        /\ lastCall' = [op |-> "addXP", arg |-> "", ret |-> r.ret]
    /\ UNCHANGED <<now, inserted, game>>

UpgradeSkill(skillName) ==
    /\ LET r == upgradeSkill(playerProgress, localStorage, skillName) IN
        /\ playerProgress' = r.p
        /\ localStorage' = r.ls
        /\ lastCall' = [op |-> "upgradeSkill", arg |-> skillName, ret |-> r.ret]
    /\ UNCHANGED <<now, inserted, game>>

SelectVehicle(vehicleId) ==
    /\ LET r == selectVehicle(playerProgress, localStorage, vehicleId) IN
        /\ playerProgress' = r.p
        /\ localStorage' = r.ls
        /\ lastCall' = [op |-> "selectVehicle", arg |-> vehicleId, ret |-> r.ret]
    /\ UNCHANGED <<now, inserted, game>>

\* addScore reads the clock; the next call comes at least a millisecond later
AddScore(mode, score) ==
    /\ LET r == addScore(playerProgress, localStorage, mode, score, now) IN
        /\ playerProgress' = r.p
        /\ localStorage' = r.ls
    /\ inserted' = [inserted EXCEPT ![mode] = Append(@, scoreEntry(playerProgress, score, now))]
    /\ lastCall' = [op |-> "addScore", arg |-> mode, ret |-> FALSE]
    /\ now' = now + 1
    /\ UNCHANGED game

\* load() on the live instance
Load ==
    /\ playerProgress' = load(playerProgress, localStorage)
    /\ lastCall' = [op |-> "load", arg |-> "", ret |-> FALSE]
    /\ UNCHANGED <<localStorage, now, inserted, game>>

NumInserted == Len(inserted["classic"]) + Len(inserted["timeattack"]) + Len(inserted["survival"])

----------------------------------------------------------------------------
(* Specifications *)

EmptyStorage ==
    [ultimateReactionDriver |-> [kind |-> "absent"], urd_username |-> Null, urd_is_guest |-> Null]

InitProgress ==
    /\ playerProgress = NewPlayerProgress
    /\ localStorage \in {EmptyStorage,
                         [EmptyStorage EXCEPT !.ultimateReactionDriver = [kind |-> "malformed"]]}
    /\ now = 0
    /\ lastCall = NoCall
    /\ inserted = [m \in Modes |-> <<>>]
    /\ game = NewGame

NextProgress ==
    \/ \E amount \in XPAmounts : AddXP(amount)
    \/ \E s \in SkillNames : UpgradeSkill(s)
    \/ \E v \in VehicleIds \cup {"kart"} : SelectVehicle(v)
    \/ \E s \in {10} : NumInserted < MaxProgressScores /\ AddScore("classic", s)
    \/ Load

SpecProgress == InitProgress /\ [][NextProgress]_vars

\* the leaderboard alone: scores of both values into classic, and entries of
\* another mode in between
BoardInputs == {<<"classic", 10>>, <<"classic", 20>>, <<"timeattack", 10>>}

NextBoard ==
    \E i \in BoardInputs : NumInserted < MaxInserts /\ AddScore(i[1], i[2])

SpecBoard == InitProgress /\ [][NextBoard]_vars

----------------------------------------------------------------------------
(* The page: startup, the user's events, the render loop *)

\* setUser(username, isGuest)
setUser(p, ls, username, isGuest) ==
    LET q == [p EXCEPT !.username = username, !.isGuest = isGuest]
    IN  [p |-> q, ls |-> save(q, ls)]

\* DOMContentLoaded: new PlayerProgress(), load() from init() and from the
\* handler, and the default to the guest user
startup(ls) ==
    LET p == load(load(NewPlayerProgress, ls), ls) IN
    IF p.username # Null /\ p.username # ""
    THEN [p |-> p, ls |-> ls]
    ELSE setUser(p, ls, "Guest", TRUE)

\* an earlier visit of the page: n classic runs, each ending with the score
\* that earns exactly the XP of the next level, the first n minutes before
\* this visit
RECURSIVE earlierRuns(_, _)
earlierRuns(w, n) ==
    IF n = 0 THEN w
    ELSE earlierRuns(
            gameOver([w EXCEPT !.g = [NewGame EXCEPT !.score = 10 * getXPForNextLevel(w.p)]],
                     -60000 * n),
            n - 1)

\* what such a visit leaves in localStorage: level 10, one point in each skill
upgraded(r, skillName) == upgradeSkill(r.p, r.ls, skillName)
visit(r) == earlierRuns([g |-> NewGame, p |-> r.p, ls |-> r.ls], 9)

VeteranStorage ==
    upgraded(upgraded(upgraded(visit(startup(EmptyStorage)), "speed"), "handling"), "xpBoost").ls

\* the random draws of one spawn
Obstacle(lane) == [kind |-> "obstacle", type |-> "box", lane |-> lane]
PowerUp(type, lane) == [kind |-> "powerUp", type |-> type, lane |-> lane]

\* user events reach the page between frames; while a run is simulated the
\* model lets them in every InputEvery-th frame
InputAllowed == game.gameState # "playing" \/ game.timeElapsed % InputEvery = 0

Session(g) ==
    /\ game' = g
    /\ UNCHANGED <<playerProgress, localStorage, now, lastCall, inserted>>

\* init() after simulateLoading(): showMainMenu() and the first animate()
InitDone ==
    /\ ~game.animating
    /\ Session([showMainMenu(game) EXCEPT !.animating = TRUE])

\* the mode buttons without their level tests
ClickModeButton_NoLevel(mode) ==
    /\ InputAllowed
    /\ Session(startGame(game, mode))

\* the three mode buttons of the main menu
ClickModeButton(mode) ==
    /\ InputAllowed
    /\ mode = "timeattack" => playerProgress.level >= 5
    /\ mode = "survival" => playerProgress.level >= 10
    /\ Session(startGame(game, mode))

\* btn-retry
ClickRetry ==
    /\ InputAllowed
    /\ Session(startGame(game, game.currentMode))

\* keydown
KeyDown(key) ==
    /\ InputAllowed
    /\ Session(IF game.gameState # "playing" THEN game
               ELSE IF key = "ArrowLeft" THEN moveLeft(game)
               ELSE IF key = "ArrowRight" THEN moveRight(game)
               ELSE IF key = "Escape" THEN pauseGame(game)
               ELSE game)

\* btn-pause
ClickPause == InputAllowed /\ Session(pauseGame(game))

\* btn-resume
ClickResume == InputAllowed /\ Session(resumeGame(game))

\* btn-quit and btn-game-over-menu
ClickQuit == InputAllowed /\ Session(quitToMenu(game))

\* animate(): one frame.  The wall clock moves on by FrameMs with every frame
\* of a run; frames outside a run change nothing, and the time that passes
\* there is Stall
Frame(c, limit) ==
    /\ game.animating
    /\ now + FrameMs <= limit
    /\ \E t \in {IF game.gameState = "playing" THEN now + FrameMs ELSE now} :
       \E w \in {updateGame([g |-> game, p |-> playerProgress, ls |-> localStorage], c, t)} :
       LET ended == game.gameState = "playing" /\ w.g.gameState = "gameover"
       IN  /\ game' = syncPlayers(w.g)
           /\ playerProgress' = w.p
           /\ localStorage' = w.ls
           /\ now' = t
           /\ inserted' = IF ended
                          THEN [inserted EXCEPT ![w.g.currentMode] =
                                    Append(@, scoreEntry(playerProgress, w.g.score, t))]
                          ELSE inserted
           /\ lastCall' = IF ended THEN [op |-> "gameOver", arg |-> w.g.currentMode, ret |-> FALSE]
                          ELSE lastCall

Animate(c) == Frame(c, MaxNow)

\* time passes while no run is simulated
Stall ==
    /\ game.gameState # "playing"
    /\ now + StallMs <= MaxNow
    /\ now' = now + StallMs
    /\ UNCHANGED <<playerProgress, localStorage, lastCall, inserted, game>>

\* the random draws the session specification lets a spawn make
SpawnChoices == {Obstacle(0), Obstacle(1), PowerUp("shield", 0)}

Init ==
    /\ \E ls \in {EmptyStorage, VeteranStorage} :
        LET w == startup(ls) IN
            /\ playerProgress = w.p
            /\ localStorage = w.ls
            /\ inserted = w.p.leaderboards
    /\ now = 0
    /\ lastCall = NoCall
    /\ game = NewGame

Next ==
    \/ InitDone
    \/ \E mode \in Modes : ClickModeButton(mode)
    \/ ClickRetry
    \/ \E key \in {"ArrowLeft", "ArrowRight", "Escape"} : KeyDown(key)
    \/ ClickPause
    \/ ClickResume
    \/ ClickQuit
    \/ \E c \in SpawnChoices : Animate(c)
    \/ Stall

Spec == Init /\ [][Next]_vars

\* single runs, followed further than the sessions of Spec: the run starts
\* from the menu, the player steers, and nobody pauses or quits.  The spawns
\* of the first RichTicks ticks draw from SpawnChoices, later ones put a box
\* into the right lane
RunChoices == IF game.timeElapsed <= RichTicks THEN SpawnChoices ELSE {Obstacle(1)}

RunStart(mode) == game.gameState = "menu" /\ ClickModeButton(mode)

RunRetry == game.gameState = "gameover" /\ ClickRetry

RunSteer(key) == game.gameState = "playing" /\ KeyDown(key)

RunFrame(c) == game.gameState = "playing" /\ Frame(c, RunMaxNow)

NextRun ==
    \/ InitDone
    \/ \E mode \in Modes : RunStart(mode)
    \/ RunRetry
    \/ \E key \in {"ArrowLeft", "ArrowRight"} : RunSteer(key)
    \/ \E c \in RunChoices : RunFrame(c)

SpecRun == Init /\ [][NextRun]_vars

\* btn-join: the room id is the trimmed, upper-cased text of the input field
ClickJoin(roomId, loaded) ==
    /\ Len(game.peers) < MaxPeers
    /\ Session(joinMultiplayer(game, roomId, loaded))

\* peer.on('connect') of the i-th peer
PeerConnect(i) ==
    /\ ~game.peers[i].connected
    /\ Session([game EXCEPT !.peers[i].connected = TRUE])

\* peer.on('data') of the i-th peer
PeerData(i, payload) ==
    /\ game.peers[i].connected
    /\ game' = onData(game, payload)
    /\ lastCall' = [op |-> "data", arg |-> payload.kind, ret |-> FALSE]
    /\ UNCHANGED <<playerProgress, localStorage, now, inserted>>

\* what a peer may send: text that is no JSON, a message of another type, and
\* position messages; a message without playerId has the key "undefined"
PeerIds == {"p1", "p2", "undefined", "constructor"}
Transforms == {[x |-> 0, y |-> Milli, z |-> PlayerZ * Milli],
               [x |-> LaneWidth * Milli, y |-> Milli, z |-> PlayerZ * Milli]}
Malformed == [kind |-> "malformed"]
PositionMessages ==
    {[type |-> "position", playerId |-> id, x |-> tr.x, y |-> tr.y, z |-> tr.z] :
        id \in PeerIds, tr \in Transforms}
Payloads ==
    {Malformed} \cup {stringify(m) : m \in PositionMessages}
        \cup {stringify([type |-> "chat", playerId |-> "p1", x |-> 0, y |-> 0, z |-> 0])}

\* a short classic run with peers
PeerStart == game.gameState = "menu" /\ ClickModeButton("classic")

PeerFrame == game.gameState = "playing" /\ Frame(Obstacle(1), PeerMaxNow)

NextPeer ==
    \/ InitDone
    \/ PeerStart
    \/ PeerFrame
    \/ ClickQuit
    \/ \E roomId \in {"", "ROOM1"}, loaded \in BOOLEAN : ClickJoin(roomId, loaded)
    \/ \E i \in DOMAIN game.peers : PeerConnect(i)
    \/ \E i \in DOMAIN game.peers, payload \in Payloads : PeerData(i, payload)

SpecPeer == Init /\ [][NextPeer]_vars

\* long runs: every spawn puts a box into the right lane and the player
\* keeps to the middle one, so that nothing but the clock can end the run
TimerStart(mode) == game.gameState = "menu" /\ ClickModeButton(mode)

TimerFrame == game.gameState = "playing" /\ Frame(Obstacle(1), TimerMaxNow)

NextTimer ==
    \/ InitDone
    \/ \E mode \in Modes : TimerStart(mode)
    \/ TimerFrame

SpecTimer == Init /\ [][NextTimer]_vars

\* runs in which speed and slowmo power-ups come down the player's lane
EffectChoices == {PowerUp("speed", 0), PowerUp("slowmo", 0)}

EffectStart == game.gameState = "menu" /\ ClickModeButton("classic")

EffectFrame(c) == game.gameState = "playing" /\ Frame(c, EffectMaxNow)

NextEffect ==
    \/ InitDone
    \/ EffectStart
    \/ \E c \in EffectChoices : EffectFrame(c)

SpecEffect == Init /\ [][NextEffect]_vars

\* ticks late in a run.  The speed and the spawn interval of a tick depend on
\* the elapsed time, the speed skill, the spawn timer and the effects; the
\* specification takes a classic run at these values and lets it tick
RECURSIVE trained(_, _)
trained(r, n) == IF n = 0 THEN r ELSE trained(upgraded(r, "speed"), n - 1)

\* profiles with speed skill 0 (new) and 1 to 5 (level 10)
LateProfiles ==
    {startup(EmptyStorage)} \cup {trained(startup(VeteranStorage), n) : n \in 0..4}

\* values of the spawn timer around the intervals of 1.5 s, 1 s and 0.5 s
LateTimers == {0, 29, 30, 59, 60, 89, 90}

InitLate ==
    /\ \E r \in LateProfiles :
        /\ playerProgress = r.p
        /\ localStorage = r.ls
        /\ inserted = r.p.leaderboards
    /\ now = 0
    /\ lastCall = NoCall
    /\ \E k \in 0..LateSteps, timer \in LateTimers, fx \in SUBSET {"speed", "slowmo"} :
        game = [startGame([NewGame EXCEPT !.animating = TRUE], "classic")
                    EXCEPT !.timeElapsed = k * LateStride,
                           !.obstacleSpawnTimer = timer,
                           !.activePowerUps = [x \in fx |-> duration[x]]]

LateFrame(c) ==
    /\ game.gameState = "playing"
    /\ game.timeElapsed % LateStride < LateTicks
    /\ Frame(c, FrameMs * LateTicks)

NextLate == \E c \in {Obstacle(1), PowerUp("magnet", 1)} : LateFrame(c)

SpecLate == InitLate /\ [][NextLate]_vars

\* runs in which every type of power-up comes down the player's lane, a
\* magnet also down the lane beside it, and boxes down that lane
PowerChoices ==
    {PowerUp(type, 0) : type \in PowerUpTypes} \cup {PowerUp("magnet", 1), Obstacle(1)}

PowerStart == game.gameState = "menu" /\ ClickModeButton("classic")

\* the draws of Math.random() are made in the ticks that spawn
PowerDraws ==
    IF (game.obstacleSpawnTimer + 1) * 120 > spawnRate([game EXCEPT !.timeElapsed = @ + 1])
    THEN PowerChoices ELSE {Obstacle(1)}

PowerFrame(c) == game.gameState = "playing" /\ Frame(c, PowerMaxNow)

NextPower ==
    \/ InitDone
    \/ PowerStart
    \/ \E c \in PowerDraws : PowerFrame(c)

SpecPower == Init /\ [][NextPower]_vars

\* the ticks around the end of an effect.  Date.now() of a tick may fall
\* before, on or behind the end time; the specification takes a classic run
\* five seconds in that holds one effect ending around the next frame, with
\* or without a box about to hit the car and a power-up in reach of a magnet
ExpiryRoads == {<<>>, <<[x |-> 0, z |-> 16 * Milli]>>}
ExpiryPowerUps == {<<>>, <<[type |-> "score", x |-> LaneWidth * Milli, z |-> 10 * Milli]>>}
ExpiryTimes == {FrameMs - 1, FrameMs, FrameMs + 1, 2 * FrameMs + 1}

InitExpiry ==
    /\ playerProgress = startup(EmptyStorage).p
    /\ localStorage = startup(EmptyStorage).ls
    /\ inserted = [m \in Modes |-> <<>>]
    /\ now = 0
    /\ lastCall = NoCall
    /\ \E type \in {"speed", "shield", "slowmo", "magnet"}, e \in ExpiryTimes,
          road \in ExpiryRoads, pus \in ExpiryPowerUps :
        game = [startGame([NewGame EXCEPT !.animating = TRUE], "classic")
                    EXCEPT !.timeElapsed = 5 * TicksPerSecond,
                           !.activePowerUps = [x \in {type} |-> e],
                           !.shield = (type = "shield"),
                           !.obstacles = road,
                           !.powerUps = pus]

ExpiryFrame == game.gameState = "playing" /\ Frame(Obstacle(1), FrameMs * ExpiryTicks)

SpecExpiry == InitExpiry /\ [][ExpiryFrame]_vars

\* a box of the middle lane on its way through the collision box of the car.
\* The specification takes a classic run at the start, after three and after
\* six minutes, with the profiles of LateProfiles, with the speed effect, a
\* shield or nothing, the box 10 to 16 down the road, and the car in the
\* middle lane or on its way out of it
InitCross ==
    /\ \E r \in LateProfiles :
        /\ playerProgress = r.p
        /\ localStorage = r.ls
        /\ inserted = r.p.leaderboards
    /\ now = 0
    /\ lastCall = NoCall
    /\ \E k \in 0..2, z \in 10..16, lane \in {0, 1}, x \in {0, 2500},
          fx \in {EmptyMap, [e \in {"speed"} |-> 5000], [e \in {"shield"} |-> 3000]} :
        game = [startGame([NewGame EXCEPT !.animating = TRUE], "classic")
                    EXCEPT !.timeElapsed = k * 180 * TicksPerSecond,
                           !.activePowerUps = fx,
                           !.shield = mapHas(fx, "shield"),
                           !.playerLane = lane,
                           !.playerX = x,
                           !.obstacles = <<[x |-> 0, z |-> z * Milli]>>]

CrossFrame == game.gameState = "playing" /\ Frame(Obstacle(1), FrameMs * CrossTicks)

SpecCross == InitCross /\ [][CrossFrame]_vars

----------------------------------------------------------------------------
(* The stored profile: the calls on PlayerProgress after the page has loaded,
   and reloads of the page in between *)

\* clearUser(): both user keys are removed, nothing is saved
clearUser(p, ls) ==
    [p |-> [p EXCEPT !.username = Null, !.isGuest = FALSE],
     ls |-> [ls EXCEPT !.urd_username = Null, !.urd_is_guest = Null]]

\* UserManager.saveUsername: the guest default, or a validated name
UserNames == {<<"Guest", TRUE>>, <<"Alice", FALSE>>}

SetUser(username, isGuest) ==
    /\ LET r == setUser(playerProgress, localStorage, username, isGuest) IN
        /\ playerProgress' = r.p
        /\ localStorage' = r.ls
    /\ lastCall' = [op |-> "setUser", arg |-> username, ret |-> FALSE]
    /\ UNCHANGED <<now, inserted, game>>

ClearUser ==
    /\ LET r == clearUser(playerProgress, localStorage) IN
        /\ playerProgress' = r.p
        /\ localStorage' = r.ls
    /\ lastCall' = [op |-> "clearUser", arg |-> "", ret |-> FALSE]
    /\ UNCHANGED <<now, inserted, game>>

\* the page is reloaded: a new PlayerProgress() reads what is stored
Reload ==
    /\ playerProgress' = load(NewPlayerProgress, localStorage)
    /\ lastCall' = [op |-> "reload", arg |-> "", ret |-> FALSE]
    /\ UNCHANGED <<localStorage, now, inserted, game>>

\* save() on the live instance, then load() into a new one
SaveReload ==
    /\ localStorage' = save(playerProgress, localStorage)
    /\ playerProgress' = load(NewPlayerProgress, localStorage')
    /\ lastCall' = [op |-> "saveReload", arg |-> "", ret |-> FALSE]
    /\ UNCHANGED <<now, inserted, game>>

InitStore ==
    /\ \E ls \in {EmptyStorage, VeteranStorage,
                   [EmptyStorage EXCEPT !.ultimateReactionDriver = [kind |-> "malformed"]]} :
        /\ playerProgress = startup(ls).p
        /\ localStorage = startup(ls).ls
    /\ now = 0
    /\ lastCall = NoCall
    /\ inserted = [m \in Modes |-> <<>>]
    /\ game = NewGame

NextStore ==
    \/ \E amount \in StoreXP : playerProgress.xp + amount <= StoreMaxXP /\ AddXP(amount)
    \/ \E s \in {"speed"} : UpgradeSkill(s)
    \/ \E v \in {"basic", "sports"} : SelectVehicle(v)
    \/ \E s \in {10} : NumInserted < MaxProgressScores /\ AddScore("classic", s)
    \/ \E u \in UserNames : SetUser(u[1], u[2])
    \/ ClearUser
    \/ Reload
    \/ SaveReload

SpecStore == InitStore /\ [][NextStore]_vars

----------------------------------------------------------------------------
(* Claims about PlayerProgress *)

\* C1: after addXP(amount) the level has advanced by every threshold the
\* accumulated xp crosses, so that xp < xpRequiredForNextLevel(level) holds
\* again. Stated as the claim states it; addXP levels up once only.
C1_AddXPLeavesXpBelowThreshold ==
    lastCall.op = "addXP" => playerProgress.xp < getXPForNextLevel(playerProgress)

\* C2: upgradeSkill(name) returns false and changes neither the progress nor
\* the storage when skillPoints <= 0 or skills[name] >= 5; otherwise it takes
\* one skill point, adds one to the skill, persists and returns true.
C2_UpgradeSkillStep ==
    LET p == playerProgress IN
    \A name \in SkillNames :
        (lastCall'.op = "upgradeSkill" /\ lastCall'.arg = name) =>
            IF p.skillPoints <= 0 \/ p.skills[name] >= 5
            THEN /\ lastCall'.ret = FALSE
                 /\ playerProgress' = p
                 /\ localStorage' = localStorage
            ELSE /\ lastCall'.ret = TRUE
                 /\ playerProgress' = [p EXCEPT !.skillPoints = p.skillPoints - 1,
                                                !.skills[name] = p.skills[name] + 1]
                 /\ localStorage'.ultimateReactionDriver.kind = "json"
                 /\ localStorage'.ultimateReactionDriver.data = playerProgress'

C2_UpgradeSkill == [][C2_UpgradeSkillStep]_vars

\* a call rejected at the cap with a skill point still in hand
C2_Witness ==
    /\ lastCall.op = "upgradeSkill"
    /\ lastCall.ret = FALSE
    /\ playerProgress.skillPoints > 0
    /\ playerProgress.skills[lastCall.arg] = 5

\* C3: level >= 1, xp >= 0, skillPoints >= 0 and every skill is in 0..5,
\* whatever sequence of addXP, upgradeSkill, selectVehicle and addScore ran.
C3_ProgressRanges ==
    /\ playerProgress.level \in Nat /\ playerProgress.level >= 1
    /\ playerProgress.xp \in Nat
    /\ playerProgress.skillPoints \in Nat
    /\ \A name \in SkillNames : playerProgress.skills[name] \in 0..5

\* all four operations ran, a skill sits at the cap and no point is left
C3_Witness ==
    /\ playerProgress.skills["handling"] = 5
    /\ playerProgress.skillPoints = 0
    /\ playerProgress.currentVehicle = "sports"
    /\ NumInserted > 0
    /\ playerProgress.xp > 0

\* C4: every vehicle with an unlockLevel <= level is unlocked, and a vehicle
\* that is unlocked is never locked again.
C4_Unlocked ==
    \A v \in VehicleIds :
        (unlockLevel[v] # 0 /\ unlockLevel[v] <= playerProgress.level)
            => playerProgress.vehicles[v]

C4_NeverRelocked ==
    \A v \in VehicleIds : playerProgress.vehicles[v] => playerProgress'.vehicles[v]

C4_VehicleUnlock == [](C4_Unlocked) /\ [][C4_NeverRelocked]_vars

\* the sports car is unlocked and a load() has just run over it
C4_Witness ==
    /\ playerProgress.level >= 5
    /\ playerProgress.vehicles["sports"]
    /\ lastCall.op = "load"
    /\ localStorage.ultimateReactionDriver.kind = "json"

\* C5: leaderboards[mode] holds at most 10 entries, sorted by score
\* descending with the earlier-inserted entry first among equal scores, and
\* they are the best of everything inserted for that mode: an entry that was
\* inserted and is not on the board ranks behind every entry on it.
Before(a, b) == a.score > b.score \/ (a.score = b.score /\ a.date < b.date)

Entries(seq) == {seq[i] : i \in 1..Len(seq)}

C5_Leaderboard ==
    \A m \in Modes :
        LET board == playerProgress.leaderboards[m]
            all == Entries(inserted[m])
        IN  /\ Len(board) = (IF Len(inserted[m]) < 10 THEN Len(inserted[m]) ELSE 10)
            /\ \A i \in 1..Len(board), j \in 1..Len(board) :
                    i < j => Before(board[i], board[j])
            /\ Entries(board) \subseteq all
            /\ \A e \in all \ Entries(board), k \in 1..Len(board) : Before(board[k], e)

\* eleven entries went into classic, the eleventh ties the lowest on the
\* board and is the one that is missing
C5_Witness ==
    /\ Len(inserted["classic"]) = 11
    /\ inserted["classic"][11].score = playerProgress.leaderboards["classic"][10].score
    /\ inserted["classic"][11] \notin Entries(playerProgress.leaderboards["classic"])
    /\ playerProgress.leaderboards["classic"][1].score = 20

----------------------------------------------------------------------------
(* Claims about the session *)

\* a click on one of the buttons that call startGame
StartClicked == ClickRetry \/ \E mode \in Modes : ClickModeButton(mode)

\* the per-run fields of the session
PerRun(g) ==
    <<g.score, g.distance, g.timeElapsed, g.obstacleSpawnTimer,
      g.obstacles, g.powerUps, g.activePowerUps>>

\* C6: playerLane is always one of -1, 0, 1; the left key takes one off it
\* only when the lane is above -1, the right key adds one only when it is
\* below 1, and at the boundary (or outside a run) the key changes nothing.
C6_LaneStep ==
    /\ KeyDown("ArrowLeft") =>
            game' = IF game.gameState = "playing" /\ game.playerLane > -1
                    THEN [game EXCEPT !.playerLane = game.playerLane - 1] ELSE game
    /\ KeyDown("ArrowRight") =>
            game' = IF game.gameState = "playing" /\ game.playerLane < 1
                    THEN [game EXCEPT !.playerLane = game.playerLane + 1] ELSE game

C6_Lane == [](game.playerLane \in {-1, 0, 1}) /\ [][C6_LaneStep]_vars

\* the player drives in the left lane of a run and the next key can arrive
C6_Witness ==
    /\ game.gameState = "playing"
    /\ game.playerLane = -1
    /\ game.playerX < -9 * Milli
    /\ InputAllowed

\* C7: startGame(mode) takes effect only in menu or gameover; in loading,
\* playing or paused it neither moves the session to playing nor resets the
\* run. Stated as the claim states it; startGame tests no state.
C7_StartStep ==
    (StartClicked /\ game.gameState \notin {"menu", "gameover"}) => game' = game

C7_StartOnlyFromMenuOrGameover == [][C7_StartStep]_vars

\* C8: pauseGame() moves playing to paused and changes nothing in any other
\* state; nothing else leads into paused.
C8_PauseStep ==
    /\ (ClickPause \/ KeyDown("Escape")) =>
            IF game.gameState = "playing"
            THEN game'.gameState = "paused" /\ PerRun(game') = PerRun(game)
            ELSE game' = game
    /\ (game'.gameState = "paused" /\ game.gameState # "paused")
            => game.gameState = "playing"

C8_Pause == [][C8_PauseStep]_vars

\* a run is paused with an obstacle on the road
C8_Witness ==
    /\ game.gameState = "paused"
    /\ game.timeElapsed > 0
    /\ game.obstacles # <<>>

\* C9: resumeGame() moves paused to playing, and called in menu, gameover or
\* loading it does not put the session into playing. Stated as the claim
\* states it; resumeGame tests no state.
C9_ResumeStep ==
    (ClickResume /\ game.gameState \in {"menu", "gameover", "loading"})
        => game'.gameState # "playing"

C9_ResumeOnlyFromPaused == [][C9_ResumeStep]_vars

\* C10, as stated: quitToMenu() from paused or gameover ends in menu and
\* leaves no per-run state of the abandoned run behind.
C10_QuitDiscardsStep ==
    (ClickQuit /\ game.gameState \in {"paused", "gameover"}) =>
        /\ game'.gameState = "menu"
        /\ game'.notificationQueue = <<>>
        /\ PerRun(game') = PerRun(NewGame)

C10_QuitStep ==
    /\ ClickQuit =>
            /\ game'.gameState = "menu"
            /\ game'.notificationQueue = <<>>
            /\ PerRun(game') = PerRun(game)
    /\ StartClicked =>
            /\ game'.gameState = "playing"
            /\ PerRun(game') = PerRun(NewGame)

----------------------------------------------------------------------------
(* Claims about the session state machine *)

SessionStates == {"loading", "menu", "playing", "paused", "gameover"}

SessionTransitions ==
    { <<"loading", "menu">>, <<"menu", "playing">>, <<"playing", "paused">>,
      <<"paused", "playing">>, <<"playing", "gameover">>, <<"gameover", "menu">>,
      <<"gameover", "playing">>, <<"paused", "menu">> }

\* C11: the session state is always one of loading, menu, playing, paused,
\* gameover, and every change of the state is one of loading->menu,
\* menu->playing, playing<->paused, playing->gameover, gameover->menu,
\* gameover->playing, paused->menu (the way back to menu is quitToMenu, which
\* C10 shows to end in menu from every state)
C11_StateMachineStep ==
    game'.gameState # game.gameState =>
        <<game.gameState, game'.gameState>> \in SessionTransitions

C11_StateMachine ==
    [](game.gameState \in SessionStates) /\ [][C11_StateMachineStep]_vars

----------------------------------------------------------------------------
(* Claims about a run *)

\* a step in which gameOver() ran
GameOverStep == game.gameState = "playing" /\ game'.gameState = "gameover"

\* the sequence s with e put in at position k
InsertAt(s, k, e) == SubSeq(s, 1, k - 1) \o <<e>> \o SubSeq(s, k, Len(s))

\* C12: gameOver() moves the session to gameover, awards
\* floor(floor(score/10) * (1 + xpBoost * 0.2)) XP by one addXP, puts exactly
\* one entry with the final score into the leaderboard of the current mode
\* (addScore's append, followed by its trim to the ten best) and leaves the
\* other leaderboards alone, and persists the progress
C12_GameOverStep ==
    GameOverStep =>
        LET p == playerProgress
            q == playerProgress'
            mode == game'.currentMode
            earned == ((game'.score \div 10) * (5 + p.skills.xpBoost)) \div 5
            total == p.xp + earned
            need == (100 * Pow(3, p.level - 1)) \div Pow(2, p.level - 1)
            e == [score |-> game'.score, date |-> now',
                  username |-> getDisplayName(p), isGuest |-> p.isGuest]
            old == p.leaderboards[mode]
        IN  /\ IF total >= need
               THEN q.level = p.level + 1 /\ q.xp = total - need
               ELSE q.level = p.level /\ q.xp = total
            /\ \E k \in 1..(Len(old) + 1) :
                    q.leaderboards[mode] = slice(InsertAt(old, k, e), BoardSize)
            /\ \A m \in Modes \ {mode} : q.leaderboards[m] = p.leaderboards[m]
            /\ localStorage'.ultimateReactionDriver = [kind |-> "json", data |-> q]

Colliding(g) ==
    \E i \in DOMAIN g.obstacles :
        /\ Abs(g.playerX - g.obstacles[i].x) < 3 * Milli
        /\ Abs(20 * Milli - g.obstacles[i].z) < 4 * Milli

\* C13: a time-attack run ends (gameover) on the first tick at which
\* timeElapsed >= 60, so that no playing time-attack session has
\* timeElapsed >= 60 at the end of a tick; in classic and survival no value
\* of timeElapsed ends the run (a run of these modes ends by a collision only)
C13_TimeStep ==
    /\ ( /\ game.gameState = "playing" /\ game'.gameState = "playing"
         /\ game'.timeElapsed # game.timeElapsed )
       => game'.timeElapsed < TimeAttackTicks \/ game'.currentMode # "timeattack"
    /\ (GameOverStep /\ game'.currentMode = "timeattack" /\ ~Colliding(game'))
       => game'.timeElapsed = TimeAttackTicks
    /\ (GameOverStep /\ game'.currentMode # "timeattack") => Colliding(game')

C13_TimeAttackCap ==
    /\ [](game.gameState = "playing" /\ game.currentMode = "timeattack"
            => game.timeElapsed < TimeAttackTicks)
    /\ [][C13_TimeStep]_vars

\* a time-attack run that the clock has ended
C13_Witness ==
    /\ game.gameState = "gameover"
    /\ game.currentMode = "timeattack"
    /\ game.timeElapsed = TimeAttackTicks
    /\ ~Colliding(game)
    /\ lastCall.op = "gameOver"

\* a step that is one tick of a run
TickStep == game.gameState = "playing" /\ game'.timeElapsed = game.timeElapsed + 1

\* the obstacles that, moved by this tick, are inside the collision box of the
\* player: |player.x - obstacle.x| < 3 and |player.z - obstacle.z| < 4
Hits ==
    {i \in DOMAIN game.obstacles :
        LET z == game.obstacles[i].z + (game'.speed \div TicksPerSecond)
        IN  /\ z <= 30 * Milli
            /\ Abs(game'.playerX - game.obstacles[i].x) < 3 * Milli
            /\ Abs(20 * Milli - z) < 4 * Milli}

\* the shield is active at the time of this tick
ShieldOn ==
    /\ "shield" \in DOMAIN game.activePowerUps
    /\ game.activePowerUps["shield"] > now'

\* the clock has ended the time-attack run in this tick
TimedOut == game'.currentMode = "timeattack" /\ game'.timeElapsed >= TimeAttackTicks

\* C14: one active shield (expiry > now) consumes exactly one collision: on
\* that collision the shield effect and the colliding obstacle are removed and
\* the state stays playing; a further collision, the shield being gone, ends
\* the run
C14_ShieldStep ==
    TickStep =>
        /\ (ShieldOn /\ Cardinality(Hits) = 1) =>
            /\ game'.gameState = "playing" \/ TimedOut
            /\ ~Colliding(game')
            /\ Len(game'.obstacles) <= Len(game.obstacles)
            /\ \/ "shield" \notin DOMAIN game'.activePowerUps /\ ~game'.shield
               \/ /\ "shield" \in DOMAIN game'.activePowerUps
                  /\ game'.activePowerUps["shield"] = now' + duration["shield"]
                  /\ Len(game'.powerUps) < Len(game.powerUps) + 1
        /\ (ShieldOn /\ Cardinality(Hits) > 1) => game'.gameState = "gameover"
        /\ (~ShieldOn /\ Hits # {}) => game'.gameState = "gameover"

C14_Shield == [][C14_ShieldStep]_vars

\* a run in which the shield absorbed a hit and a later collision was the end
C14_Witness ==
    /\ game.gameState = "gameover"
    /\ \E i \in DOMAIN game.notificationQueue :
            game.notificationQueue[i] = "Shield Absorbed Hit!"
    /\ Colliding(game)
    /\ "shield" \notin DOMAIN game.activePowerUps

\* the largest element of a non-empty set of indices
MaxOf(S) == CHOOSE i \in S : \A j \in S : j <= i

\* C15: an obstacle collides with the player in a tick iff, after it has
\* moved and was not culled, |player.x - obstacle.x| < 3 and
\* |player.z - obstacle.z| < 4; with no active shield the collision moves the
\* state to gameover in that same tick, and the obstacles the loop had not
\* reached yet are left as they were
C15_CollisionStep ==
    TickStep =>
        /\ Hits = {} => game'.gameState = "playing" \/ TimedOut
        /\ (Hits # {} /\ ~ShieldOn) =>
            /\ game'.gameState = "gameover"
            /\ Colliding(game')
            /\ \A j \in 1..(MaxOf(Hits) - 1) : game'.obstacles[j] = game.obstacles[j]
        /\ (GameOverStep /\ ~TimedOut) => Hits # {}

C15_Collision == [][C15_CollisionStep]_vars

\* a run has ended by a collision while the player was changing lanes
C15_Witness ==
    /\ game.gameState = "gameover"
    /\ Colliding(game)
    /\ game.playerX % (10 * Milli) # 0
    /\ game.score > 0

----------------------------------------------------------------------------
(* Claims about multiplayer *)

\* some peer of the page is connected
SomeConnected(g) == \E i \in DOMAIN g.peers : g.peers[i].connected

\* the message broadcastPlayerPosition builds from g
PositionOf(g) ==
    [type |-> "position", x |-> g.playerX, y |-> Milli, z |-> 20 * Milli,
     lane |-> g.playerLane]

\* C16: while the session is playing and a peer is connected every tick sends
\* one message {type: 'position', x, y, z, lane} with the player's transform
\* and lane; nothing is sent when the session is not playing
C16_BroadcastStep ==
    /\ (TickStep /\ game'.gameState = "playing" /\ SomeConnected(game))
        => game'.sent = Append(game.sent, stringify(PositionOf(game')))
    /\ game'.gameState # "playing" => game'.sent = game.sent

C16_Broadcast == [][C16_BroadcastStep]_vars

\* the remote players after a position message m, were each identifier to
\* get its own representation with the transform of its last message
Received(rp, m) ==
    [k \in DOMAIN rp \cup {m.playerId} |->
        IF k = m.playerId THEN [x |-> m.x, y |-> m.y, z |-> m.z] ELSE rp[k]]

\* C17: each distinct peer identifier gets its own remote player, created on
\* the first position message from that peer and never duplicated, and after
\* any interleaving of messages a remote player has the transform of the last
\* message of its peer
C17_RemotePlayersStep ==
    \A i \in DOMAIN game.peers, m \in PositionMessages :
        PeerData(i, stringify(m)) => game'.remotePlayers = Received(game.remotePlayers, m)

C17_RemotePlayers == [][C17_RemotePlayersStep]_vars

\* C18: a payload that JSON.parse rejects is swallowed: the session state,
\* the fields of the run and the remote players with their transforms are as
\* before, and the well-formed message that comes next is processed
C18_MalformedStep ==
    \A i \in DOMAIN game.peers :
        /\ PeerData(i, Malformed) => game' = game
        /\ \A m \in PositionMessages :
            ( /\ lastCall.op = "data" /\ lastCall.arg = "malformed"
              /\ m.playerId \notin ProtoKeys
              /\ PeerData(i, stringify(m)) )
            => /\ m.playerId \in DOMAIN game'.remotePlayers
               /\ game'.remotePlayers[m.playerId] = [x |-> m.x, y |-> m.y, z |-> m.z]

C18_Malformed == [][C18_MalformedStep]_vars

\* text that is no JSON has just arrived in a run with two remote players
C18_Witness ==
    /\ lastCall.op = "data"
    /\ lastCall.arg = "malformed"
    /\ game.gameState = "playing"
    /\ game.timeElapsed > 0
    /\ {"p1", "p2"} \subseteq DOMAIN game.remotePlayers

\* C19: quitToMenu, and joinMultiplayer before it replaces the peer, close
\* the peer channel, so that at most one channel is open at any time and none
\* is left open behind
C19_TeardownStep == ClickQuit => game'.peers = <<>>

C19_OneChannel == [](Len(game.peers) <= 1) /\ [][C19_TeardownStep]_vars

----------------------------------------------------------------------------
(* Claims about persistence *)

\* the values of a new PlayerProgress that the claim lists
HasDefaults(p) ==
    /\ p.level = 1
    /\ p.xp = 0
    /\ p.skillPoints = 0
    /\ \A k \in {"speed", "xpBoost", "handling"} : p.skills[k] = 0
    /\ \A v \in {"basic", "sports", "super", "hyper"} : p.vehicles[v] = (v = "basic")
    /\ \A m \in {"classic", "timeattack", "survival"} : p.leaderboards[m] = <<>>

\* C20: load() with a persisted blob that is malformed JSON does not raise
\* and leaves PlayerProgress with its default values: level 1, xp 0, no skill
\* points, skills at 0, only the basic vehicle unlocked, empty leaderboards
C20_LoadStep ==
    (Load /\ localStorage.ultimateReactionDriver.kind = "malformed") =>
        /\ playerProgress' = playerProgress
        /\ HasDefaults(playerProgress')

C20_MalformedLoad == [][C20_LoadStep]_vars

\* load() has run on a malformed blob
C20_Witness ==
    /\ lastCall.op = "load"
    /\ localStorage.ultimateReactionDriver.kind = "malformed"
    /\ HasDefaults(playerProgress)

\* the fields the claims about the stored profile compare
SameProfile(p, q) ==
    /\ p.level = q.level
    /\ p.xp = q.xp
    /\ p.skillPoints = q.skillPoints
    /\ p.skills = q.skills
    /\ p.vehicles = q.vehicles
    /\ p.currentVehicle = q.currentVehicle
    /\ p.leaderboards = q.leaderboards
    /\ p.username = q.username
    /\ p.isGuest = q.isGuest

\* C21: for every reachable PlayerProgress state, save() followed by load()
\* into a fresh instance yields a field-wise equal object: level, xp, skill
\* points, skills, vehicle unlock flags, current vehicle, leaderboards,
\* username and guest flag
C21_RoundTripStep == SaveReload => SameProfile(playerProgress', playerProgress)

Mutators == {"addXP", "upgradeSkill", "selectVehicle", "addScore"}

\* C22: after every PlayerProgress mutation that changes saved state (addXP
\* with or without a level-up, upgradeSkill, selectVehicle, addScore) returns,
\* the persisted blob equals the in-memory state, so a reload between
\* operations loses no progress
C22_PersistStep ==
    /\ (lastCall'.op \in Mutators /\ playerProgress' # playerProgress) =>
            localStorage'.ultimateReactionDriver = stringify(playerProgress')
    /\ (Reload /\ lastCall.op \in Mutators) =>
            SameProfile(playerProgress', playerProgress)

C22_Persisted == [][C22_PersistStep]_vars

----------------------------------------------------------------------------
(* Claims about modes and about the tick *)

\* the level a mode asks for
ModeLevel(mode) == IF mode = "timeattack" THEN 5 ELSE IF mode = "survival" THEN 10 ELSE 1

\* C23: a run in timeattack mode can only be started when the player's level
\* is >= 5 and a run in survival mode only when the level is >= 10, over every
\* path that starts a run (menu buttons and retry); classic is always available
C23_StartStep ==
    (game'.gameState = "playing" /\ game.gameState # "playing") =>
        playerProgress'.level >= ModeLevel(game'.currentMode)

C23_ModeLocks ==
    /\ [](game.gameState \in {"playing", "gameover"} =>
            playerProgress.level >= ModeLevel(game.currentMode))
    /\ [][C23_StartStep]_vars

\* a timeattack run restarted by retry: its board already holds a run
C23_Witness ==
    /\ game.gameState = "playing"
    /\ game.currentMode = "timeattack"
    /\ playerProgress.leaderboards["timeattack"] # <<>>
    /\ playerProgress.level >= 5

\* C24: in survival mode obstacles spawn more frequently than in classic
\* mode: at the same elapsed time the spawn interval used in survival is
\* strictly smaller than the one used in classic
C24_SurvivalSpawns ==
    (game.gameState = "playing" /\ game.currentMode = "survival") =>
        spawnRate(game) < spawnRate([game EXCEPT !.currentMode = "classic"])

\* the per-run fields as the claim lists them after startGame(mode)
FreshRun(g, mode) ==
    /\ g.gameState = "playing"
    /\ g.currentMode = mode
    /\ g.score = 0
    /\ g.distance = 0
    /\ g.speed = 50 * Milli
    /\ g.timeElapsed = 0
    /\ g.obstacleSpawnTimer = 0
    /\ g.playerLane = 0
    /\ g.obstacles = <<>>
    /\ g.powerUps = <<>>
    /\ DOMAIN g.activePowerUps = {}

\* C25: startGame(mode) resets every per-run field: afterwards state =
\* playing, currentMode = mode, score = 0, distance = 0, speed = baseSpeed,
\* elapsed time = 0, spawn timer = 0, playerLane = 0, the obstacle and power-up
\* lists are empty and no effect is active; retry from gameover restarts with
\* the same mode and the same reset
C25_ResetStep ==
    /\ \A mode \in Modes : ClickModeButton(mode) => FreshRun(game', mode)
    /\ ClickRetry => FreshRun(game', game.currentMode)

MinOf(S) == CHOOSE i \in S : \A j \in S : i <= j

\* the obstacle at index j as this tick moves it
MovedObstacle(j) ==
    [game.obstacles[j] EXCEPT !.z = @ + (game'.speed \div TicksPerSecond)]

\* C26 as stated: when several obstacles are within collision range in the
\* same tick they are processed in a stable, deterministic order (spawn
\* order), and processing stops at the first run-ending collision: no obstacle
\* after it in that order is moved, culled, scored or absorbed in that tick
C26_SpawnOrderStep ==
    (TickStep /\ Hits # {} /\ ~ShieldOn) =>
        /\ game'.gameState = "gameover"
        /\ Len(game'.obstacles) = Len(game.obstacles)
        /\ \A j \in (MinOf(Hits) + 1)..Len(game.obstacles) :
                game'.obstacles[j] = game.obstacles[j]

C26_SpawnOrder == [][C26_SpawnOrderStep]_vars

\* C26 as the loop runs: the obstacles are processed from the newest to the
\* oldest (descending index, the reverse of spawn order), and processing stops
\* at the first run-ending collision: the obstacles spawned after the fatal
\* one have been moved in that tick, the fatal one too, and no obstacle
\* spawned before it is moved, culled, scored or absorbed
C26_NewestFirstStep ==
    (TickStep /\ Hits # {} /\ ~ShieldOn) =>
        /\ game'.gameState = "gameover"
        /\ Len(game'.obstacles) = Len(game.obstacles)
        /\ \A j \in MaxOf(Hits)..Len(game.obstacles) :
                game'.obstacles[j] = MovedObstacle(j)
        /\ \A j \in 1..(MaxOf(Hits) - 1) : game'.obstacles[j] = game.obstacles[j]
        /\ game'.score = game.score

C26_NewestFirst == [][C26_NewestFirstStep]_vars

\* a run has ended on an obstacle while a newer one was on the road
C26_Witness ==
    /\ game.gameState = "gameover"
    /\ \E k \in DOMAIN game.obstacles :
        /\ Abs(game.playerX - game.obstacles[k].x) < 3 * Milli
        /\ Abs(20 * Milli - game.obstacles[k].z) < 4 * Milli
        /\ k < Len(game.obstacles)

\* the speed that this tick computes from the elapsed time it has advanced
TickSpeed == computeSpeed([game EXCEPT !.timeElapsed = @ + 1], playerProgress, now')

\* C27: inside a playing tick the steps run in this order: advance elapsed
\* time, compute speed, update lane position, spawn check, update/cull
\* obstacles (a fatal collision returns immediately), update/cull power-ups,
\* expire stale effects, accumulate distance and score, time-attack end check;
\* so a tick that ends in a fatal collision performs no power-up update, no
\* effect expiry and no distance/score accumulation
C27_TickOrderStep ==
    TickStep =>
        /\ game'.speed = TickSpeed
        /\ game'.playerX = movePlayer(game, playerProgress).playerX
        /\ game'.obstacleSpawnTimer \in {0, game.obstacleSpawnTimer + 1}
        /\ (Hits # {} /\ ~ShieldOn) =>
            /\ game'.gameState = "gameover"
            /\ SubSeq(game'.powerUps, 1, Len(game.powerUps)) = game.powerUps
            /\ Len(game'.powerUps) + Len(game'.obstacles)
                    <= Len(game.powerUps) + Len(game.obstacles) + 1
            /\ game'.activePowerUps = game.activePowerUps
            /\ game'.distance = game.distance
            /\ game'.score = game.score
        /\ ~(Hits # {} /\ ~ShieldOn) =>
            /\ \A k \in DOMAIN game'.activePowerUps : game'.activePowerUps[k] > now'
            /\ game'.distance = game.distance + (TickSpeed \div TicksPerSecond)
            /\ game'.gameState = "gameover" <=> TimedOut

C27_TickOrder == [][C27_TickOrderStep]_vars

\* a run has ended by a collision with a power-up on the road
C27_Witness ==
    /\ game.gameState = "gameover"
    /\ Colliding(game)
    /\ game.powerUps # <<>>
    /\ game.distance > 0

\* an effect of the run is active at the time of this tick
EffectOn(type) ==
    /\ type \in DOMAIN game.activePowerUps
    /\ game.activePowerUps[type] > now'

\* base speed, growth with time and speed skill of this tick, times mult / 2
SpeedTimes(mult) ==
    LET grown == (50 * Milli * (3600 + game'.timeElapsed)) \div 3600
        skilled == (grown * (10 + playerProgress.skills["speed"])) \div 10
    IN  Min((skilled * mult) \div 2, 200 * Milli)

\* C28: when both the speed and the slowmo effects are active in the same
\* tick the power-up multiplier of the speed formula is 0.5 (slowmo overrides
\* speed, it is not 0.75), in whichever order the two power-ups were
\* collected; with only speed active it is 1.5 and with neither it is 1
C28_MultiplierStep ==
    TickStep =>
        /\ (EffectOn("speed") /\ EffectOn("slowmo")) => game'.speed = SpeedTimes(1)
        /\ (EffectOn("speed") /\ ~EffectOn("slowmo")) => game'.speed = SpeedTimes(3)
        /\ (~EffectOn("speed") /\ ~EffectOn("slowmo")) => game'.speed = SpeedTimes(2)

C28_Multiplier == [][C28_MultiplierStep]_vars

\* both effects are active, slowmo collected after speed, and the speed of
\* the tick is half of what it is without power-ups
C28_Witness ==
    /\ game.gameState = "playing"
    /\ {"speed", "slowmo"} \subseteq DOMAIN game.activePowerUps
    /\ game.activePowerUps["speed"] > now
    /\ game.activePowerUps["slowmo"] > now
    /\ game.activePowerUps["speed"] - 5000 < game.activePowerUps["slowmo"] - 4000
    /\ game.speed < 50 * Milli

\* 72 times the speed of the formula of this tick, uncapped, in thousandths:
\* baseSpeed * (1 + timeElapsed / 60) * (1 + skills.speed * 0.1) * multiplier
Formula72 ==
    LET mult == IF EffectOn("slowmo") THEN 1 ELSE IF EffectOn("speed") THEN 3 ELSE 2
    IN  50 * (3600 + game'.timeElapsed) * (10 + playerProgress.skills["speed"]) * mult

\* C29: in every tick while playing, speed = min(baseSpeed * (1 +
\* elapsedTime/60) * (1 + skills.speed*0.1) * powerUpMultiplier, maxSpeed),
\* hence 0 < speed <= maxSpeed (200) for every skill level in 0..5 and every
\* elapsed time.  The speed is in thousandths and rounded down three times on
\* the way, which takes less than 5 thousandths off the product
C29_SpeedStep ==
    TickStep =>
        /\ IF Formula72 >= 200 * Milli * 72
           THEN game'.speed = 200 * Milli
           ELSE /\ game'.speed * 72 <= Formula72
                /\ Formula72 < (game'.speed + 5) * 72
        /\ 0 < game'.speed
        /\ game'.speed <= 200 * Milli

Fresh(list, spawnZ) ==
    {i \in DOMAIN list : list[i].z <= spawnZ * Milli + (game'.speed \div TicksPerSecond)}

\* C30: each playing tick adds delta to the spawn timer and spawns exactly one
\* entity (an obstacle or a power-up, never both) iff the timer then exceeds
\* spawnRate = max(1.5 - elapsedTime/120, 0.5), resetting the timer to 0;
\* otherwise nothing is spawned.  spawnRate is non-increasing in elapsed time
\* and stays in [0.5, 1.5], reaching the floor 0.5 from elapsedTime >= 120.
\* Times are in ticks of 1/60 s, spawnRate in 1/7200 s
C30_SpawnStep ==
    TickStep =>
        LET timer == game.obstacleSpawnTimer + 1
            rate == IF 10800 - game'.timeElapsed > 3600
                    THEN 10800 - game'.timeElapsed ELSE 3600
            spawned == Cardinality(Fresh(game'.obstacles, -100))
                        + Cardinality(Fresh(game'.powerUps, -120))
        IN  /\ spawnRate(game') = rate
            /\ spawnRate(game') <= spawnRate(game)
            /\ IF timer * 120 > rate
               THEN spawned = 1 /\ game'.obstacleSpawnTimer = 0
               ELSE spawned = 0 /\ game'.obstacleSpawnTimer = timer

C30_Spawn ==
    /\ [](/\ spawnRate(game) >= 3600
          /\ spawnRate(game) <= 10800
          /\ spawnRate(game) = 3600 <=> game.timeElapsed >= 7200)
    /\ [][C30_SpawnStep]_vars

\* a spawn at the shortest interval, half a second after the one before
C30_Witness ==
    /\ game.gameState = "playing"
    /\ game.timeElapsed > 7200
    /\ game.obstacleSpawnTimer = 0
    /\ game.obstacles # <<>>

----------------------------------------------------------------------------
(* Claims about entities, effects and the score *)

\* a tick that ran to its end: no fatal collision made updateGame return
CompletedTick == TickStep /\ ~(Hits # {} /\ ~ShieldOn)

\* the distance an entity moves in this tick, speed * delta
Travel == game'.speed \div TicksPerSecond

\* the entities of a list moved by this tick
Travelled(list) == [i \in DOMAIN list |-> [list[i] EXCEPT !.z = @ + Travel]]

\* a moved power-up is inside the collection box of the player
Collected(pu) ==
    /\ Abs(game'.playerX - pu.x) < 2 * Milli
    /\ Abs(20 * Milli - pu.z) < 3 * Milli

\* the list without the entities at the indices of drop
Without(list, drop) ==
    LET kept == SelectSeq([i \in DOMAIN list |-> i], LAMBDA i : i \notin drop)
    IN  [k \in DOMAIN kept |-> list[kept[k]]]

\* the entities of the list after the tick that the tick has not created
Older(list, spawnZ) == SubSeq(list, 1, Len(list) - Cardinality(Fresh(list, spawnZ)))

\* C31: an entity is spawned in one of the lanes {-10, 0, 10} at z = -100
\* (obstacle) or z = -120 (power-up) and moves by speed*delta per tick (a
\* power-up under an active magnet is pulled besides); an obstacle whose z
\* exceeds 30 is removed and awards exactly +10 score once, a power-up whose z
\* exceeds 30 is removed with no score, and at the end of every completed tick
\* no live entity has z > 30
C31_EntityStep ==
    CompletedTick =>
        LET obs == Travelled(game.obstacles)
            pus == Travelled(game.powerUps)
            passed == {i \in DOMAIN obs : obs[i].z > 30 * Milli}
            absorbed == IF ShieldOn /\ Hits # {} THEN {MaxOf(Hits)} ELSE {}
            bonus == {i \in DOMAIN pus : /\ pus[i].z <= 30 * Milli
                                          /\ Collected(pus[i])
                                          /\ pus[i].type = "score"}
        IN  /\ \A i \in Fresh(game'.obstacles, -100) :
                /\ game'.obstacles[i].x \in {-10 * Milli, 0, 10 * Milli}
                /\ game'.obstacles[i].z = -100 * Milli + Travel
            /\ \A i \in Fresh(game'.powerUps, -120) :
                /\ game'.powerUps[i].x \in {-10 * Milli, 0, 10 * Milli}
                /\ game'.powerUps[i].z = -120 * Milli + Travel
            /\ Older(game'.obstacles, -100) = Without(obs, passed \cup absorbed)
            /\ ~EffectOn("magnet") =>
                    /\ Older(game'.powerUps, -120) =
                            SelectSeq(pus, LAMBDA pu : pu.z <= 30 * Milli /\ ~Collected(pu))
                    /\ game'.score = game.score + 10 * Cardinality(passed)
                                                 + 500 * Cardinality(bonus)
            /\ game'.score >= game.score + 10 * Cardinality(passed)
            /\ (game'.score - game.score - 10 * Cardinality(passed)) % 500 = 0

Stale(type) ==
    /\ type \in DOMAIN game.activePowerUps
    /\ game.activePowerUps[type] <= now'

\* C32: at the end of every completed playing tick no effect with
\* expiryTimestamp <= now remains in the active-effect map, and an effect is
\* never treated as active (speed multiplier, shield absorption, magnet pull)
\* at a time now >= its expiry; when shield is removed by natural expiry the
\* shield visual flag is cleared in the same tick
C32_ExpiryStep ==
    /\ CompletedTick =>
        /\ \A k \in DOMAIN game'.activePowerUps : game'.activePowerUps[k] > now'
        /\ Stale("shield") => ~game'.shield \/ "shield" \in DOMAIN game'.activePowerUps
        /\ Stale("magnet") =>
                Older(game'.powerUps, -120) =
                    SelectSeq(Travelled(game.powerUps),
                              LAMBDA pu : pu.z <= 30 * Milli /\ ~Collected(pu))
    /\ TickStep =>
        /\ (Stale("speed") /\ ~EffectOn("slowmo")) => game'.speed = SpeedTimes(2)
        /\ Stale("slowmo") => game'.speed = SpeedTimes(IF EffectOn("speed") THEN 3 ELSE 2)
        /\ (Stale("shield") /\ Hits # {}) =>
                /\ game'.gameState = "gameover"
                /\ Len(game'.obstacles) = Len(game.obstacles)

C32_Expiry == [][C32_ExpiryStep]_vars

\* a shield has ended by itself: the tick whose clock is the end time has
\* taken it from the map and the visual from the car
C32_Witness ==
    /\ game.gameState = "playing"
    /\ now = FrameMs
    /\ game.timeElapsed = 5 * TicksPerSecond + 1
    /\ DOMAIN game.activePowerUps = {}
    /\ ~game.shield
    /\ game.speed = (50 * Milli * (3600 + game.timeElapsed)) \div 3600
    /\ game.powerUps # <<>>
    /\ game.powerUps[1].x = 10 * Milli

\* the power-ups of the road as this tick moves them: by speed * delta and,
\* short of the cull line, by the pull of a magnet
Approached ==
    LET car == [game EXCEPT !.playerX = game'.playerX]
        pus == Travelled(game.powerUps)
    IN  [i \in DOMAIN pus |->
            IF pus[i].z > 30 * Milli THEN pus[i] ELSE magnetPull(car, pus[i], now')]

\* of the power-ups ap, moved by this tick, those that the tick collects, and
\* those of one type among them
Pickups(ap) == {i \in DOMAIN ap : ap[i].z <= 30 * Milli /\ Collected(ap[i])}
PickupsOf(got, type) == {i \in got : game.powerUps[i].type = type}

\* C33: collecting a power-up (|dx| < 2 and |dz| < 3) removes it from the
\* power-up list exactly once and applies its effect: speed, shield, slowmo and
\* magnet set that effect's expiry to now + its duration (5000, 3000, 4000,
\* 6000 ms; re-collecting refreshes rather than stacks), while score adds
\* exactly 500 to the score and is never entered into the active-effect map,
\* whose keys are therefore always a subset of {speed, shield, slowmo, magnet}
C33_CollectStep ==
    CompletedTick =>
        \E ap \in {Approached} : \E got \in {Pickups(ap)} :
        LET passed == {i \in DOMAIN game.obstacles :
                            game.obstacles[i].z + Travel > 30 * Milli}
            length == [speed |-> 5000, shield |-> 3000, slowmo |-> 4000, magnet |-> 6000]
        IN  /\ Older(game'.powerUps, -120) = Without(ap, got \cup {i \in DOMAIN ap : ap[i].z > 30 * Milli})
            /\ \A type \in {"speed", "shield", "slowmo", "magnet"} :
                    IF PickupsOf(got, type) # {}
                    THEN /\ type \in DOMAIN game'.activePowerUps
                         /\ game'.activePowerUps[type] = now' + length[type]
                    ELSE \/ type \notin DOMAIN game'.activePowerUps
                         \/ /\ type \in DOMAIN game.activePowerUps
                            /\ game'.activePowerUps[type] = game.activePowerUps[type]
            /\ game'.score = game.score + 10 * Cardinality(passed)
                                         + 500 * Cardinality(PickupsOf(got, "score"))

C33_Collect ==
    /\ [](DOMAIN game.activePowerUps \subseteq {"speed", "shield", "slowmo", "magnet"})
    /\ [][C33_CollectStep]_vars

\* a second speed power-up has just been collected while the first was still
\* active, after a score power-up
C33_Witness ==
    /\ game.gameState = "playing"
    /\ "speed" \in DOMAIN game.activePowerUps
    /\ game.activePowerUps["speed"] = now + 5000
    /\ Cardinality({i \in DOMAIN game.notificationQueue :
                        game.notificationQueue[i] = "Speed Boost!"}) = 2

\* C34: gameOver runs at most once per run: between one startGame and the
\* next, for any sequence of ticks, pauses and resumes (including a tick in
\* which a fatal collision and the time-attack expiry coincide), XP is awarded
\* once and exactly one leaderboard entry is added.  A step that ends the run
\* adds one entry, and a run that has ended goes on only as a new run
C34_OnceStep ==
    /\ GameOverStep =>
            /\ Len(inserted'[game'.currentMode]) = Len(inserted[game.currentMode]) + 1
            /\ \A m \in Modes \ {game'.currentMode} : inserted'[m] = inserted[m]
    /\ (game.gameState = "gameover" /\ game'.gameState = "playing") =>
            FreshRun(game', game'.currentMode)

C34_Once == [][C34_OnceStep]_vars

\* the fields of a run that the claim about idle states lists
RunFields(g) ==
    <<g.score, g.distance, g.speed, g.timeElapsed, g.obstacleSpawnTimer,
      g.playerLane, g.obstacles, g.powerUps, g.activePowerUps>>

\* C35: while the state is not playing (loading, menu, paused, gameover) a
\* tick and any lane input leave score, distance, speed, elapsed time, spawn
\* timer, playerLane, the entity lists and the active-effect map unchanged; in
\* particular a pause followed by resume returns to playing with exactly the
\* per-run fields it had when paused
C35_IdleStep ==
    /\ ( /\ game.gameState # "playing"
         /\ \/ \E c \in SpawnChoices : Animate(c)
            \/ \E key \in {"ArrowLeft", "ArrowRight", "Escape"} : KeyDown(key)
            \/ Stall )
       => RunFields(game') = RunFields(game) /\ game'.gameState = game.gameState
    /\ (game.gameState = "playing" /\ game'.gameState = "paused")
       => RunFields(game') = RunFields(game)
    /\ (game.gameState = "paused" /\ game'.gameState = "playing" /\ ClickResume)
       => RunFields(game') = RunFields(game)

C35_Idle == [][C35_IdleStep]_vars

\* a run is paused away from the middle lane, with a box and a power-up on
\* the road
C35_Witness ==
    /\ game.gameState = "paused"
    /\ game.timeElapsed > 0
    /\ game.playerLane # 0
    /\ game.obstacles # <<>>
    /\ game.powerUps # <<>>

\* C36: no tunnelling: because speed <= maxSpeed = 200 and delta = 1/60, an
\* obstacle advances at most 200/60 < 8 per tick, so an obstacle that stays
\* within |dx| < 3 of the player while crossing the player's z cannot reach
\* z > 30 without a collision being detected in some tick (ending the run or
\* consuming a shield); it is never scored +10 as passed.  In SpecCross the
\* car that keeps to the middle lane stays within 3 of the box
C36_CrossStep ==
    TickStep =>
        /\ Travel * 60 <= 200 * Milli
        /\ Travel < 8 * Milli
        /\ Hits # {} =>
            \/ game'.gameState = "gameover"
            \/ /\ ShieldOn
               /\ "shield" \notin DOMAIN game'.activePowerUps
               /\ Len(game'.obstacles) < Len(game.obstacles)
        /\ game.playerLane = 0 => game'.score = game.score

C36_NoTunnel ==
    /\ [](game.playerLane = 0 => game.score = 0)
    /\ [](game.gameState = "playing" => ~Colliding(game))
    /\ [][C36_CrossStep]_vars

\* six minutes into a run, at the cap of the speed, the box has hit the car
\* in the tick that took it into the collision box
C36_Witness ==
    /\ game.gameState = "gameover"
    /\ game.timeElapsed > 360 * TicksPerSecond
    /\ game.speed = 200 * Milli
    /\ game.playerLane = 0
    /\ game.score = 0
    /\ Colliding(game)

\* C37: the shield visual flag and the shield effect stay consistent: in
\* every reachable state, including after startGame, retry or quitToMenu
\* following a run that ended or was abandoned while a shield was active, the
\* shield visual of the player is present only if a shield entry exists in the
\* active-effect map
C37_ShieldVisual == game.shield => "shield" \in DOMAIN game.activePowerUps

----------------------------------------------------------------------------
(* Claims about skill points, the garage and the score *)

SkillSum(p) == p.skills.speed + p.skills.xpBoost + p.skills.handling

\* C38: skill points are conserved: in every state reachable from a fresh
\* PlayerProgress by any sequence of addXP and upgradeSkill, skillPoints +
\* skills.speed + skills.xpBoost + skills.handling = level - 1, and level
\* never decreases
C38_Conserved ==
    /\ [](playerProgress.skillPoints + SkillSum(playerProgress) = playerProgress.level - 1)
    /\ [][playerProgress'.level >= playerProgress.level]_vars

\* two levels gained, one point spent and one in hand
C38_Witness ==
    /\ playerProgress.level = 3
    /\ playerProgress.skillPoints = 1
    /\ SkillSum(playerProgress) = 1
    /\ lastCall.op = "upgradeSkill"
    /\ lastCall.ret

\* C39: currentVehicle always names an existing, unlocked vehicle:
\* selectVehicle(id) changes the selection and returns true only when id names
\* a vehicle with unlocked = true; for a locked or unknown id it returns false
\* and leaves the selection and the persisted state unchanged
C39_Garage ==
    /\ playerProgress.currentVehicle \in VehicleIds
    /\ playerProgress.vehicles[playerProgress.currentVehicle]

C39_SelectStep ==
    \A id \in VehicleIds \cup {"kart"} :
        (lastCall'.op = "selectVehicle" /\ lastCall'.arg = id) =>
            IF id \in VehicleIds /\ playerProgress.vehicles[id]
            THEN /\ lastCall'.ret = TRUE
                 /\ playerProgress'.currentVehicle = id
            ELSE /\ lastCall'.ret = FALSE
                 /\ playerProgress' = playerProgress
                 /\ localStorage' = localStorage

C39_Select == [](C39_Garage) /\ [][C39_SelectStep]_vars

\* the sports car has been selected, and the locked super car was refused
C39_Witness ==
    /\ playerProgress.currentVehicle = "sports"
    /\ ~playerProgress.vehicles["super"]
    /\ lastCall = [op |-> "selectVehicle", arg |-> "super", ret |-> FALSE]

\* the score is put back to 0 by startGame, which begins another run
SameRun == \A mode \in Modes : game' # startGame(game, mode)

\* floor(speed * delta * 0.1) with the speed of this tick
DistanceTerm == (game'.speed \div (10 * TicksPerSecond)) \div Milli

\* C40: within a run the score is a non-negative integer that never
\* decreases, and each playing tick adds floor(speed * delta * 0.1) to it for
\* distance travelled in addition to +10 per passed obstacle and +500 per
\* score power-up; with speed <= 200 and delta = 1/60 that distance term is
\* floor of a value below 1, so the score only ever changes in steps of 10 and
\* 500
C40_ScoreStep ==
    /\ SameRun =>
        /\ game'.score >= game.score
        /\ \E tens \in 0..Len(game.obstacles), gifts \in 0..Len(game.powerUps) :
                game'.score = game.score + 10 * tens + 500 * gifts
    /\ ~TickStep /\ SameRun => game'.score = game.score
    /\ TickStep =>
        /\ game'.speed <= maxSpeed * Milli
        /\ game'.speed < 10 * TicksPerSecond * Milli
        /\ DistanceTerm = 0
        /\ game'.distance > game.distance \/ game'.gameState = "gameover"

C40_Score == [](game.score \in Nat) /\ [][C40_ScoreStep]_vars

\* a run that has passed an obstacle and collected a score power-up
C40_Witness ==
    /\ game.gameState = "playing"
    /\ game.score = 510
    /\ game.distance > 0

====
